---- MODULE Spec2Model ----
(***************************************************************************)
(* Model of the EvidenceChain ledger (contracts/EvidenceChain.sol): its     *)
(* storage, its four state-changing functions and the block context they   *)
(* read.                                                                   *)
(*                                                                         *)
(* A transaction of the contract is one atomic step.  A transaction that   *)
(* hits a failing require reverts: the EVM discards every write it made,   *)
(* so the step leaves the contract storage as it was and only records the  *)
(* revert reason in lastTx.                                                *)
(*                                                                         *)
(* On top of the ledger, the handlers of the Express backend               *)
(* (backend/routes/evidence.js over backend/utils/blockchain.js).  Node     *)
(* runs a handler up to its next await without interruption; every await is *)
(* one call to the ledger (a read, a gas estimate or a transaction), so a   *)
(* handler is one step per ledger call, and the steps of concurrent         *)
(* requests and the transactions of other accounts interleave freely.       *)
(***************************************************************************)
EXTENDS Integers, Sequences, FiniteSets, TLC

\* ------------------------------------------------------------------ bounds
\* Blocks mined after the deployment block (block.number stays <= MaxBlock).
MaxBlock == 2
\* Audit entries the model lets the ledger hold, all records together: every
\* successful transaction pushes exactly one, so this bounds the successful
\* transactions of a run.
MaxEntries == 3

\* ------------------------------------------------------------ input domains
\* msg.sender values: two externally owned accounts.  With the owner 0xA they
\* give every pairing of caller and record: owner and uploader (0xA on its
\* own record), owner only (0xA on a record of 0xB), uploader only (0xB on
\* its own record), neither (0xB on a record of 0xA).
Addresses == {"0xA", "0xB"}
\* msg.sender of the constructor call.
Deployers == {"0xA"}
\* address(0)
ZeroAddress == "0x0"
\* fileHash arguments: the empty string and two SHA-256 hex digests.
FileHashes == {"", "a1f0", "b2e1"}
\* fileName arguments.
FileNames == {"", "report.pdf"}
\* The remaining addEvidence arguments are stored and never read by the contract.
IpfsHashes == {""}
FileTypes == {"application/pdf"}
FileSizes == {1024}
Descriptions == {""}
CaseIds == {"CASE-1"}
\* notes arguments of updateStatus and logAudit.
NotesArgs == {"reviewed"}
\* action arguments of logAudit: free text chosen by the caller.
ActionArgs == {"NOTE"}

\* enum EvidenceStatus { Active, UnderReview, Archived, Disputed }
EvidenceStatus == {"Active", "UnderReview", "Archived", "Disputed"}

\* bytes32(0)
ZeroId == <<>>

\* An id digest that leaves the file hash out.
EvidenceIdOf_WithoutHash(fileHash, sender, timestamp, number) ==
    <<"", sender, timestamp, number>>

\* An id digest that packs block.number before block.timestamp.
EvidenceIdOf_NumberBeforeTime(fileHash, sender, timestamp, number) ==
    <<fileHash, sender, number, timestamp>>

\* keccak256(abi.encodePacked(fileHash, msg.sender, block.timestamp, block.number)).
\* The packed encoding is injective here (one dynamic field followed by three
\* fixed-width fields) and keccak256 is collision resistant, so the digest is
\* represented by the tuple it is computed from; it is never bytes32(0).
EvidenceIdOf(fileHash, sender, timestamp, number) ==
    <<fileHash, sender, timestamp, number>>

\* An id that no addEvidence call produces (all-ones bytes32), for calls on
\* a record that does not exist.
UnknownId == <<"ffff", ZeroAddress, 0, 0>>

VARIABLES
    evidenceStore,     \* mapping(bytes32 => Evidence), the written slots
    auditLogs,         \* mapping(bytes32 => AuditLog[]), the written slots
    uploaderEvidence,  \* mapping(address => bytes32[])
    hashToId,          \* mapping(string => bytes32)
    allEvidenceIds,    \* bytes32[]
    owner,             \* address public owner
    totalEvidence,     \* uint256 public totalEvidence
    blockTimestamp,    \* block.timestamp of the block being built
    blockNumber,       \* block.number of the block being built
    lastTx,            \* the last transaction sent to the contract and its outcome
    requests           \* the HTTP requests the backend is serving or has served

ledgerVars == <<evidenceStore, auditLogs, uploaderEvidence, hashToId,
                allEvidenceIds, owner, totalEvidence>>
chainVars == <<blockTimestamp, blockNumber>>
vars == <<evidenceStore, auditLogs, uploaderEvidence, hashToId,
          allEvidenceIds, owner, totalEvidence, blockTimestamp, blockNumber,
          lastTx, requests>>

\* ------------------------------------------------------- storage defaults
\* An unwritten slot of evidenceStore reads as the zero Evidence struct.
EmptyEvidence ==
    [fileHash |-> "", ipfsHash |-> "", fileName |-> "", fileType |-> "",
     fileSize |-> 0, description |-> "", caseId |-> "", timestamp |-> 0,
     uploader |-> ZeroAddress, isSealed |-> FALSE, status |-> "Active"]

\* evidenceStore[evidenceId]
StoreAt(evidenceId) ==
    IF evidenceId \in DOMAIN evidenceStore THEN evidenceStore[evidenceId]
    ELSE EmptyEvidence

\* auditLogs[evidenceId]
LogsAt(evidenceId) ==
    IF evidenceId \in DOMAIN auditLogs THEN auditLogs[evidenceId] ELSE <<>>

\* modifier evidenceExists: bytes(evidenceStore[evidenceId].fileHash).length > 0
evidenceExists(evidenceId) == StoreAt(evidenceId).fileHash # ""

\* modifier notSealed: !evidenceStore[evidenceId].isSealed
notSealed(evidenceId) == ~StoreAt(evidenceId).isSealed

\* struct AuditLog
AuditLog(actor, action, timestamp, notes) ==
    [actor |-> actor, action |-> action, timestamp |-> timestamp, notes |-> notes]

\* The ids a caller can name: those of the records, and one of no record.
KnownIds == DOMAIN evidenceStore \cup {UnknownId}

\* ---------------------------------------------------------------- lastTx
\* What the sender of a transaction observes: the call, and either "ok" with
\* the return value or the reason string of the require that reverted it.
NoTx ==
    [fn |-> "none", sender |-> ZeroAddress, evidenceId |-> ZeroId,
     fileHash |-> "", fileName |-> "", outcome |-> "none", ret |-> ZeroId]

\* Number of AuditLog entries in storage.
RECURSIVE EntriesIn(_)
EntriesIn(ids) ==
    IF ids = {} THEN 0
    ELSE LET evidenceId == CHOOSE x \in ids : TRUE
         IN  Len(auditLogs[evidenceId]) + EntriesIn(ids \ {evidenceId})

RoomForEntry == EntriesIn(DOMAIN auditLogs) < MaxEntries

\* -------------------------------------------------------------- requests
\* The requests of a run: two, so that two handlers can be in flight at once.
RequestIds == {"r1", "r2"}

\* res.status(..).json(..) not called yet.
NoResponse == [status |-> 0, error |-> "", evidenceId |-> ZeroId, data |-> <<>>]

\* A request that has not arrived: the route it takes (kind), the await its
\* handler stands at (pc), the values the handler holds (from, fileHash,
\* fileName, evidenceId, locals), whether its uploaded file is on disk (file)
\* and the response it sent.
NoRequest ==
    [kind |-> "none", pc |-> "idle", from |-> ZeroAddress, fileHash |-> "",
     fileName |-> "", evidenceId |-> ZeroId, file |-> FALSE, locals |-> <<>>,
     response |-> NoResponse]

\* Requests are numbered in the order they arrive: r is the next to arrive.
Arrives(r) ==
    /\ requests[r] = NoRequest
    /\ r = "r2" => requests["r1"] # NoRequest

\* ------------------------------------------------------------ constructor
Init ==
    /\ evidenceStore = <<>>
    /\ auditLogs = <<>>
    /\ uploaderEvidence = [a \in Addresses |-> <<>>]
    /\ hashToId = [h \in FileHashes |-> ZeroId]
    /\ allEvidenceIds = <<>>
    /\ owner \in Deployers
    /\ totalEvidence = 0
    /\ blockTimestamp = 1
    /\ blockNumber = 1
    /\ lastTx = NoTx
    /\ requests = [r \in RequestIds |-> NoRequest]

\* A mapping write that clears every other slot.
Write_ClearingOthers(m, k, v) == [x \in {k} |-> v]

\* mapping write: m[k] = v
Write(m, k, v) == [x \in DOMAIN m \cup {k} |-> IF x = k THEN v ELSE m[x]]

\* ------------------------------------------------------------ addEvidence
\* addEvidence without its third require.
AddEvidenceOutcome_NoDuplicateCheck(fileHash, fileName) ==
    IF fileHash = "" THEN "File hash required"
    ELSE IF fileName = "" THEN "File name required"
    ELSE "ok"

\* The three require statements of addEvidence, in order.
AddEvidenceOutcome(fileHash, fileName) ==
    IF fileHash = "" THEN "File hash required"
    ELSE IF fileName = "" THEN "File name required"
    ELSE IF hashToId[fileHash] # ZeroId THEN "Evidence with this hash already exists"
    ELSE "ok"

\* addEvidence storing the record with a status other than the enum's first.
NewEvidence_UnderReview(sender, fileHash, ipfsHash, fileName, fileType, fileSize, description, caseId) ==
    [fileHash |-> fileHash, ipfsHash |-> ipfsHash, fileName |-> fileName,
     fileType |-> fileType, fileSize |-> fileSize, description |-> description,
     caseId |-> caseId, timestamp |-> blockTimestamp, uploader |-> sender,
     isSealed |-> FALSE, status |-> "UnderReview"]

\* The Evidence struct addEvidence stores.
NewEvidence(sender, fileHash, ipfsHash, fileName, fileType, fileSize, description, caseId) ==
    [fileHash |-> fileHash, ipfsHash |-> ipfsHash, fileName |-> fileName,
     fileType |-> fileType, fileSize |-> fileSize, description |-> description,
     caseId |-> caseId, timestamp |-> blockTimestamp, uploader |-> sender,
     isSealed |-> FALSE, status |-> "Active"]

\* addEvidence forgetting to index the new record.
HashIndexed_NotWritten(fileHash, evidenceId) == hashToId

\* hashToId[fileHash] = evidenceId
HashIndexed(fileHash, evidenceId) == [hashToId EXCEPT ![fileHash] = evidenceId]

\* addEvidence signing the first entry with the owner instead of msg.sender.
InitialAuditLog_ByOwner(sender) ==
    AuditLog(owner, "EVIDENCE_ADDED", blockTimestamp, "Initial upload")

\* The entry addEvidence pushes on the audit log of the new record.
InitialAuditLog(sender) ==
    AuditLog(sender, "EVIDENCE_ADDED", blockTimestamp, "Initial upload")

AddEvidence(sender, fileHash, ipfsHash, fileName, fileType, fileSize, description, caseId) ==
    LET outcome == AddEvidenceOutcome(fileHash, fileName)
        evidenceId == EvidenceIdOf(fileHash, sender, blockTimestamp, blockNumber)
    IN  IF outcome = "ok"
        THEN /\ RoomForEntry
             /\ evidenceStore' = Write(evidenceStore, evidenceId,
                    NewEvidence(sender, fileHash, ipfsHash, fileName, fileType,
                                fileSize, description, caseId))
             /\ hashToId' = HashIndexed(fileHash, evidenceId)
             /\ uploaderEvidence' =
                    [uploaderEvidence EXCEPT ![sender] = Append(@, evidenceId)]
             /\ allEvidenceIds' = Append(allEvidenceIds, evidenceId)
             /\ totalEvidence' = totalEvidence + 1
             /\ auditLogs' = Write(auditLogs, evidenceId,
                    Append(LogsAt(evidenceId), InitialAuditLog(sender)))
             /\ lastTx' = [NoTx EXCEPT !.fn = "addEvidence", !.sender = sender,
                               !.fileHash = fileHash, !.fileName = fileName,
                               !.outcome = "ok", !.ret = evidenceId]
             /\ UNCHANGED <<owner, chainVars>>
        ELSE /\ lastTx' = [NoTx EXCEPT !.fn = "addEvidence", !.sender = sender,
                               !.fileHash = fileHash, !.fileName = fileName,
                               !.outcome = outcome]
             /\ UNCHANGED <<ledgerVars, chainVars>>

\* ----------------------------------------------------------- sealEvidence
\* sealEvidence without the notSealed modifier.
SealEvidenceOutcome_NoSealCheck(sender, evidenceId) ==
    IF ~evidenceExists(evidenceId) THEN "Evidence not found"
    ELSE IF ~(sender = StoreAt(evidenceId).uploader \/ sender = owner)
    THEN "Not authorized to seal"
    ELSE "ok"

\* sealEvidence without the require of its body.
SealEvidenceOutcome_NoAuthorization(sender, evidenceId) ==
    IF ~evidenceExists(evidenceId) THEN "Evidence not found"
    ELSE IF ~notSealed(evidenceId) THEN "Evidence is sealed"
    ELSE "ok"

\* evidenceExists, notSealed, then the require of the body.
SealEvidenceOutcome(sender, evidenceId) ==
    IF ~evidenceExists(evidenceId) THEN "Evidence not found"
    ELSE IF ~notSealed(evidenceId) THEN "Evidence is sealed"
    ELSE IF ~(sender = StoreAt(evidenceId).uploader \/ sender = owner)
         THEN "Not authorized to seal"
    ELSE "ok"

\* sealEvidence archiving the record it seals.
SealedEvidence_Archiving(e) == [e EXCEPT !.isSealed = TRUE, !.status = "Archived"]

\* evidenceStore[evidenceId].isSealed = true
SealedEvidence(e) == [e EXCEPT !.isSealed = TRUE]

SealEvidence(sender, evidenceId) ==
    LET outcome == SealEvidenceOutcome(sender, evidenceId)
    IN  IF outcome = "ok"
        THEN /\ RoomForEntry
             /\ evidenceStore' = Write(evidenceStore, evidenceId,
                                       SealedEvidence(StoreAt(evidenceId)))
             /\ auditLogs' = Write(auditLogs, evidenceId,
                    Append(LogsAt(evidenceId),
                           AuditLog(sender, "EVIDENCE_SEALED", blockTimestamp,
                                    "Evidence sealed for integrity")))
             /\ lastTx' = [NoTx EXCEPT !.fn = "sealEvidence", !.sender = sender,
                               !.evidenceId = evidenceId, !.outcome = "ok"]
             /\ UNCHANGED <<uploaderEvidence, hashToId, allEvidenceIds, owner,
                            totalEvidence, chainVars>>
        ELSE /\ lastTx' = [NoTx EXCEPT !.fn = "sealEvidence", !.sender = sender,
                               !.evidenceId = evidenceId, !.outcome = outcome]
             /\ UNCHANGED <<ledgerVars, chainVars>>

\* ----------------------------------------------------------- updateStatus
\* updateStatus without the notSealed modifier.
UpdateStatusOutcome_NoSealCheck(sender, evidenceId) ==
    IF ~evidenceExists(evidenceId) THEN "Evidence not found"
    ELSE IF ~(sender = StoreAt(evidenceId).uploader \/ sender = owner)
         THEN "Not authorized"
    ELSE "ok"

\* updateStatus checking the caller before the notSealed modifier.
UpdateStatusOutcome_AuthorizationFirst(sender, evidenceId) ==
    IF ~evidenceExists(evidenceId) THEN "Evidence not found"
    ELSE IF ~(sender = StoreAt(evidenceId).uploader \/ sender = owner)
         THEN "Not authorized"
    ELSE IF ~notSealed(evidenceId) THEN "Evidence is sealed"
    ELSE "ok"

\* evidenceExists, notSealed, then the require of the body.
UpdateStatusOutcome(sender, evidenceId) ==
    IF ~evidenceExists(evidenceId) THEN "Evidence not found"
    ELSE IF ~notSealed(evidenceId) THEN "Evidence is sealed"
    ELSE IF ~(sender = StoreAt(evidenceId).uploader \/ sender = owner)
         THEN "Not authorized"
    ELSE "ok"

\* updateStatus never leading back to Active.
StatusUpdatedEvidence_NoWayBack(e, newStatus) ==
    IF newStatus = "Active" THEN e ELSE [e EXCEPT !.status = newStatus]

\* evidenceStore[evidenceId].status = newStatus
StatusUpdatedEvidence(e, newStatus) == [e EXCEPT !.status = newStatus]

UpdateStatus(sender, evidenceId, newStatus, notes) ==
    LET outcome == UpdateStatusOutcome(sender, evidenceId)
    IN  IF outcome = "ok"
        THEN /\ RoomForEntry
             /\ evidenceStore' = Write(evidenceStore, evidenceId,
                    StatusUpdatedEvidence(StoreAt(evidenceId), newStatus))
             /\ auditLogs' = Write(auditLogs, evidenceId,
                    Append(LogsAt(evidenceId),
                           AuditLog(sender, "STATUS_UPDATED", blockTimestamp, notes)))
             /\ lastTx' = [NoTx EXCEPT !.fn = "updateStatus", !.sender = sender,
                               !.evidenceId = evidenceId, !.outcome = "ok"]
             /\ UNCHANGED <<uploaderEvidence, hashToId, allEvidenceIds, owner,
                            totalEvidence, chainVars>>
        ELSE /\ lastTx' = [NoTx EXCEPT !.fn = "updateStatus", !.sender = sender,
                               !.evidenceId = evidenceId, !.outcome = outcome]
             /\ UNCHANGED <<ledgerVars, chainVars>>

\* --------------------------------------------------------------- logAudit
\* logAudit carrying the notSealed modifier as well.
LogAuditOutcome_NotSealed(sender, evidenceId) ==
    IF ~evidenceExists(evidenceId) THEN "Evidence not found"
    ELSE IF ~notSealed(evidenceId) THEN "Evidence is sealed"
    ELSE "ok"

\* evidenceExists is the only condition.
LogAuditOutcome(sender, evidenceId) ==
    IF ~evidenceExists(evidenceId) THEN "Evidence not found" ELSE "ok"

\* logAudit writing the new entry at the front of the array.
PushAuditLog_AtFront(log, sender, action, notes) ==
    <<AuditLog(sender, action, blockTimestamp, notes)>> \o log

\* auditLogs[evidenceId].push(AuditLog({...}))
PushAuditLog(log, sender, action, notes) ==
    Append(log, AuditLog(sender, action, blockTimestamp, notes))

\* logAudit handing the contract to its caller.
LogAudit_TakesOwnership(sender, evidenceId, action, notes) ==
    LET outcome == LogAuditOutcome(sender, evidenceId)
    IN  IF outcome = "ok"
        THEN /\ RoomForEntry
             /\ auditLogs' = Write(auditLogs, evidenceId,
                    PushAuditLog(LogsAt(evidenceId), sender, action, notes))
             /\ owner' = sender
             /\ lastTx' = [NoTx EXCEPT !.fn = "logAudit", !.sender = sender,
                               !.evidenceId = evidenceId, !.outcome = "ok"]
             /\ UNCHANGED <<evidenceStore, uploaderEvidence, hashToId,
                            allEvidenceIds, totalEvidence, chainVars>>
        ELSE /\ lastTx' = [NoTx EXCEPT !.fn = "logAudit", !.sender = sender,
                               !.evidenceId = evidenceId, !.outcome = outcome]
             /\ UNCHANGED <<ledgerVars, chainVars>>

LogAudit(sender, evidenceId, action, notes) ==
    LET outcome == LogAuditOutcome(sender, evidenceId)
    IN  IF outcome = "ok"
        THEN /\ RoomForEntry
             /\ auditLogs' = Write(auditLogs, evidenceId,
                    PushAuditLog(LogsAt(evidenceId), sender, action, notes))
             /\ lastTx' = [NoTx EXCEPT !.fn = "logAudit", !.sender = sender,
                               !.evidenceId = evidenceId, !.outcome = "ok"]
             /\ UNCHANGED <<evidenceStore, uploaderEvidence, hashToId,
                            allEvidenceIds, owner, totalEvidence, chainVars>>
        ELSE /\ lastTx' = [NoTx EXCEPT !.fn = "logAudit", !.sender = sender,
                               !.evidenceId = evidenceId, !.outcome = outcome]
             /\ UNCHANGED <<ledgerVars, chainVars>>

\* ------------------------------------------------------------------ chain
\* The chain seals the current block and opens the next one: block.number
\* grows by one and block.timestamp (whole seconds) does not go backwards.
MineBlock ==
    /\ blockNumber < MaxBlock
    /\ blockNumber' = blockNumber + 1
    /\ blockTimestamp' \in {blockTimestamp, blockTimestamp + 1}
    /\ UNCHANGED <<ledgerVars, lastTx>>

\* ----------------------------------------------------------------- result
\* The sender of lastTx takes its receipt or its revert reason.  The chain
\* runs transactions one at a time, so the next one starts from here.
Return ==
    /\ lastTx # NoTx
    /\ lastTx' = NoTx
    /\ UNCHANGED <<ledgerVars, chainVars, requests>>

\* ------------------------------------------------------------ the ledger
\* Any account may send any transaction with any arguments at any time, and
\* blocks are mined in between.
Next ==
    \/ /\ lastTx = NoTx
       /\ UNCHANGED requests
       /\ \/ \E sender \in Addresses, fileHash \in FileHashes,
                ipfsHash \in IpfsHashes, fileName \in FileNames,
                fileType \in FileTypes, fileSize \in FileSizes,
                description \in Descriptions, caseId \in CaseIds :
                AddEvidence(sender, fileHash, ipfsHash, fileName, fileType,
                            fileSize, description, caseId)
          \/ \E sender \in Addresses, evidenceId \in KnownIds :
                SealEvidence(sender, evidenceId)
          \/ \E sender \in Addresses, evidenceId \in KnownIds,
                newStatus \in EvidenceStatus, notes \in NotesArgs :
                UpdateStatus(sender, evidenceId, newStatus, notes)
          \/ \E sender \in Addresses, evidenceId \in KnownIds,
                action \in ActionArgs, notes \in NotesArgs :
                LogAudit(sender, evidenceId, action, notes)
          \/ MineBlock
    \/ Return

Spec == Init /\ [][Next]_vars

\* --------------------------------------------------------- view functions
\* A view function changes nothing; a call returns its value computed on the
\* storage of the moment, or reverts with the reason of its require.

\* verifyEvidence returning block.timestamp instead of the record's timestamp.
VerifyEvidence_BlockTime(fileHash) ==
    LET evidenceId == hashToId[fileHash]
    IN  IF evidenceId = ZeroId
        THEN [isValid |-> FALSE, evidenceId |-> ZeroId,
              uploader |-> ZeroAddress, timestamp |-> 0]
        ELSE [isValid |-> TRUE, evidenceId |-> evidenceId,
              uploader |-> StoreAt(evidenceId).uploader,
              timestamp |-> blockTimestamp]

\* verifyEvidence(fileHash): (isValid, evidenceId, uploader, timestamp)
VerifyEvidence(fileHash) ==
    LET evidenceId == hashToId[fileHash]
    IN  IF evidenceId = ZeroId
        THEN [isValid |-> FALSE, evidenceId |-> ZeroId,
              uploader |-> ZeroAddress, timestamp |-> 0]
        ELSE [isValid |-> TRUE, evidenceId |-> evidenceId,
              uploader |-> StoreAt(evidenceId).uploader,
              timestamp |-> StoreAt(evidenceId).timestamp]

\* The result of a call: the returned value, or the revert reason.
Returned(value) == [outcome |-> "ok", ret |-> value]
Reverted(reason) == [outcome |-> reason, ret |-> <<>>]

\* getEvidence(evidenceId)
GetEvidence(evidenceId) ==
    IF ~evidenceExists(evidenceId) THEN Reverted("Evidence not found")
    ELSE Returned(StoreAt(evidenceId))

\* getEvidenceByHash without its require.
GetEvidenceByHash_NoRequire(fileHash) == Returned(StoreAt(hashToId[fileHash]))

\* getEvidenceByHash(fileHash)
GetEvidenceByHash(fileHash) ==
    IF hashToId[fileHash] = ZeroId THEN Reverted("Evidence not found")
    ELSE Returned(StoreAt(hashToId[fileHash]))

\* getAuditLogs(evidenceId)
GetAuditLogs(evidenceId) ==
    IF ~evidenceExists(evidenceId) THEN Reverted("Evidence not found")
    ELSE Returned(LogsAt(evidenceId))

\* getUploaderEvidence returning the global list for every uploader.
GetUploaderEvidence_Everything(uploader) == allEvidenceIds

\* getUploaderEvidence(uploader)
GetUploaderEvidence(uploader) == uploaderEvidence[uploader]

\* getAllEvidenceIds()
GetAllEvidenceIds == allEvidenceIds

\* getEvidenceCount()
GetEvidenceCount == totalEvidence

\* ------------------------------------------------------------ the backend
\* deployerAccount of blockchain.js, set once by initBlockchain: the account
\* of DEPLOYER_PRIVATE_KEY, or the node's first account.
deployerAccount == "0xA"

\* from taken from the body as it is, with no fallback.
FromOf_NoFallback(address) == address

\* const from = uploaderAddress || deployerAccount (fromAddress in seal):
\* an absent or empty body field falls back to the backend's own account.
FromOf(address) == IF address = "" THEN deployerAccount ELSE address

\* The address field of a request body: absent, or an account.
BodyAddresses == Addresses \cup {""}

\* req.file of a multipart request without a file part.
NoFile == "(none)"

\* The files a client uploads, by content.
UploadedFiles == {"%PDF-1.4 a", "%PDF-1.4 b"}

\* hashFile(filePath): the SHA-256 digest of the file's bytes in hex.  SHA-256
\* is collision resistant: files of different content have different digests,
\* and a digest is 64 hex characters, never the empty string.
hashFile(file) == IF file = "%PDF-1.4 a" THEN "a1f0" ELSE "b2e1"

\* fileName || req.file.originalname: the name of an uploaded file part is
\* not empty (a part without a file name is a field, not a file).
UploadNames == FileNames \ {""}

\* res.status(status).json({ success: false, error })
ErrorResponse(status, error) ==
    [NoResponse EXCEPT !.status = status, !.error = error]

\* The request r with the handler of route kind standing at await pc.
At(r, kind, pc) == requests[r].kind = kind /\ requests[r].pc = pc

\* ------------------------------------------------------------ POST /upload
\* The catch block of the upload handler answering without removing the file.
UploadFailed_KeepsFile(request, message) ==
    [request EXCEPT !.pc = "done", !.response = ErrorResponse(500, message)]

\* The catch block of the upload handler: the uploaded file is removed and the
\* error message goes out with status 500.
UploadFailed(request, message) ==
    [request EXCEPT !.pc = "done", !.file = FALSE,
                    !.response = ErrorResponse(500, message)]

\* The request arrives; multer has stored the file.  Without a file the
\* handler answers 400; otherwise it hashes the file and calls verifyEvidence.
UploadReceive(r, file, fileName, uploaderAddress) ==
    /\ Arrives(r)
    /\ requests' = [requests EXCEPT ![r] =
          IF file = NoFile
          THEN [NoRequest EXCEPT !.kind = "upload", !.pc = "done",
                                 !.response = ErrorResponse(400, "No file uploaded")]
          ELSE [NoRequest EXCEPT !.kind = "upload", !.pc = "verifyEvidence",
                                 !.from = FromOf(uploaderAddress),
                                 !.fileHash = hashFile(file),
                                 !.fileName = fileName, !.file = TRUE]]
    /\ UNCHANGED <<ledgerVars, chainVars, lastTx>>

\* verifyEvidence answers.  A registered hash ends the request: the file is
\* removed and 409 carries the id that verifyEvidence returned.  Otherwise
\* blockchain.addEvidence starts with its gas estimate.
UploadVerifyEvidence(r) ==
    /\ At(r, "upload", "verifyEvidence")
    /\ LET existing == VerifyEvidence(requests[r].fileHash)
       IN  requests' = [requests EXCEPT ![r] =
              IF existing.isValid
              THEN [@ EXCEPT !.pc = "done", !.file = FALSE,
                             !.response = [NoResponse EXCEPT
                                !.status = 409,
                                !.error = "This file has already been registered on the blockchain.",
                                !.evidenceId = existing.evidenceId]]
              ELSE [@ EXCEPT !.pc = "estimateGas"]]
    /\ UNCHANGED <<ledgerVars, chainVars, lastTx>>

\* estimateGas runs addEvidence on the storage of the moment without sending
\* it, and throws when it reverts.
UploadEstimateGas(r) ==
    /\ At(r, "upload", "estimateGas")
    /\ LET outcome == AddEvidenceOutcome(requests[r].fileHash, requests[r].fileName)
       IN  requests' = [requests EXCEPT ![r] =
              IF outcome = "ok" THEN [@ EXCEPT !.pc = "send"]
              ELSE UploadFailed(@, outcome)]
    /\ UNCHANGED <<ledgerVars, chainVars, lastTx>>

\* send: the addEvidence transaction runs.  Its receipt carries the id of the
\* EvidenceAdded event and the handler answers 201; a revert throws.
UploadSend(r) ==
    /\ At(r, "upload", "send")
    /\ \E ipfsHash \in IpfsHashes, fileType \in FileTypes, fileSize \in FileSizes,
          description \in Descriptions, caseId \in CaseIds :
          AddEvidence(requests[r].from, requests[r].fileHash, ipfsHash,
                      requests[r].fileName, fileType, fileSize, description, caseId)
    /\ requests' = [requests EXCEPT ![r] =
          IF lastTx'.outcome = "ok"
          THEN [@ EXCEPT !.pc = "done",
                         !.response = [NoResponse EXCEPT !.status = 201,
                                                         !.evidenceId = lastTx'.ret]]
          ELSE UploadFailed(@, lastTx'.outcome)]

\* Uploads in flight, next to the registrations that other accounts send to
\* the contract themselves.  (The upload handler reads nothing that
\* sealEvidence, updateStatus or logAudit write.)
NextUpload ==
    \/ /\ lastTx = NoTx
       /\ \/ \E r \in RequestIds, file \in UploadedFiles \cup {NoFile},
                fileName \in UploadNames, uploaderAddress \in BodyAddresses :
                UploadReceive(r, file, fileName, uploaderAddress)
          \/ \E r \in RequestIds : UploadVerifyEvidence(r)
          \/ \E r \in RequestIds : UploadEstimateGas(r)
          \/ \E r \in RequestIds : UploadSend(r)
          \/ /\ \E sender \in Addresses, fileHash \in FileHashes,
                   ipfsHash \in IpfsHashes, fileName \in FileNames,
                   fileType \in FileTypes, fileSize \in FileSizes,
                   description \in Descriptions, caseId \in CaseIds :
                   AddEvidence(sender, fileHash, ipfsHash, fileName, fileType,
                               fileSize, description, caseId)
             /\ UNCHANGED requests
          \/ MineBlock /\ UNCHANGED requests
    \/ Return

SpecUpload == Init /\ [][NextUpload]_vars

\* ----------------------------------------------------- serializeEvidence
\* The ABI returns the status enum as its index; STATUS_MAP of blockchain.js
\* turns the index back into a name.
StatusIndex ==
    [status \in EvidenceStatus |->
        IF status = "Active" THEN 0
        ELSE IF status = "UnderReview" THEN 1
        ELSE IF status = "Archived" THEN 2
        ELSE 3]

STATUS_MAP == <<"Active", "UnderReview", "Archived", "Disputed">>

\* serializeEvidence(e): the fields of the struct, numbers as numbers, the
\* status by name ("Active" for an index outside STATUS_MAP).
serializeEvidence(e) ==
    LET index == StatusIndex[e.status]
    IN  [e EXCEPT !.status = IF index + 1 \in DOMAIN STATUS_MAP
                             THEN STATUS_MAP[index + 1] ELSE "Active"]

\* ----------------------------------------------------- GET /:evidenceId
\* The catch block of the handler: whatever was thrown, 404.
GetFailed(request) ==
    [request EXCEPT !.pc = "done",
                    !.response = ErrorResponse(404, "Evidence not found")]

\* The request arrives and the handler calls getEvidence.
GetReceive(r, evidenceId) ==
    /\ Arrives(r)
    /\ requests' = [requests EXCEPT ![r] =
          [NoRequest EXCEPT !.kind = "get", !.pc = "getEvidence",
                            !.evidenceId = evidenceId]]
    /\ UNCHANGED <<ledgerVars, chainVars, lastTx>>

\* getEvidence answers; the handler keeps the record and calls getAuditLogs.
GetEvidenceAnswered(r) ==
    /\ At(r, "get", "getEvidence")
    /\ LET result == GetEvidence(requests[r].evidenceId)
       IN  requests' = [requests EXCEPT ![r] =
              IF result.outcome = "ok"
              THEN [@ EXCEPT !.pc = "getAuditLogs",
                             !.locals = serializeEvidence(result.ret)]
              ELSE GetFailed(@)]
    /\ UNCHANGED <<ledgerVars, chainVars, lastTx>>

\* getAuditLogs answers; the handler sends the record it kept together with
\* the log it just read.
GetAuditLogsAnswered(r) ==
    /\ At(r, "get", "getAuditLogs")
    /\ LET result == GetAuditLogs(requests[r].evidenceId)
       IN  requests' = [requests EXCEPT ![r] =
              IF result.outcome = "ok"
              THEN [@ EXCEPT !.pc = "done",
                             !.response = [NoResponse EXCEPT
                                !.status = 200,
                                !.data = [evidence |-> requests[r].locals,
                                          auditLogs |-> result.ret]]]
              ELSE GetFailed(@)]
    /\ UNCHANGED <<ledgerVars, chainVars, lastTx>>

\* ------------------------------------------------- GET /stats/overview
\* The stats object with a sealed record no longer counted as active.
StatsOf_SealedNotActive(count, all) ==
    [total |-> count,
     active |-> Cardinality({i \in DOMAIN all :
                               all[i].status = "Active" /\ ~all[i].isSealed}),
     sealed |-> Cardinality({i \in DOMAIN all : all[i].isSealed}),
     disputed |-> Cardinality({i \in DOMAIN all : all[i].status = "Disputed"})]

\* The stats object of the response: all.filter(..).length is the number of
\* positions of all that hold a record passing the filter.
StatsOf(count, all) ==
    [total |-> count,
     active |-> Cardinality({i \in DOMAIN all : all[i].status = "Active"}),
     sealed |-> Cardinality({i \in DOMAIN all : all[i].isSealed}),
     disputed |-> Cardinality({i \in DOMAIN all : all[i].status = "Disputed"})]

\* Promise.all resolved: the handler answers with the count it read first and
\* the numbers it counts in the records it read last.
StatsAnswer(request, all) ==
    [request EXCEPT !.pc = "done",
                    !.locals.all = all,
                    !.locals.pending = {},
                    !.response = [NoResponse EXCEPT
                        !.status = 200,
                        !.data = StatsOf(request.locals.count, all)]]

\* The request arrives and the handler calls getEvidenceCount.
StatsReceive(r) ==
    /\ Arrives(r)
    /\ requests' = [requests EXCEPT ![r] =
          [NoRequest EXCEPT !.kind = "stats", !.pc = "getEvidenceCount"]]
    /\ UNCHANGED <<ledgerVars, chainVars, lastTx>>

\* getEvidenceCount answers; the handler calls getAllEvidenceIds.
StatsCountAnswered(r) ==
    /\ At(r, "stats", "getEvidenceCount")
    /\ requests' = [requests EXCEPT ![r] =
          [@ EXCEPT !.pc = "getAllEvidenceIds",
                    !.locals = [count |-> GetEvidenceCount, ids |-> <<>>,
                                all |-> <<>>, pending |-> {}]]]
    /\ UNCHANGED <<ledgerVars, chainVars, lastTx>>

\* getAllEvidenceIds answers; the handler calls getEvidence for every id at
\* once (with no id, Promise.all resolves on the spot).  locals.pending holds
\* the positions whose call has not answered yet.
StatsIdsAnswered(r) ==
    /\ At(r, "stats", "getAllEvidenceIds")
    /\ LET ids == GetAllEvidenceIds
       IN  requests' = [requests EXCEPT ![r] =
              IF ids = <<>> THEN StatsAnswer(@, <<>>)
              ELSE [@ EXCEPT !.pc = "getEvidence",
                             !.locals.ids = ids,
                             !.locals.all = [i \in DOMAIN ids |-> EmptyEvidence],
                             !.locals.pending = DOMAIN ids]]
    /\ UNCHANGED <<ledgerVars, chainVars, lastTx>>

\* One of the getEvidence calls answers, in any order; with the last answer
\* Promise.all resolves.  A call that reverts rejects it: status 500.
StatsEvidenceAnswered(r, i) ==
    /\ At(r, "stats", "getEvidence")
    /\ i \in requests[r].locals.pending
    /\ LET result == GetEvidence(requests[r].locals.ids[i])
           all == [requests[r].locals.all EXCEPT ![i] = serializeEvidence(result.ret)]
       IN  requests' = [requests EXCEPT ![r] =
              IF result.outcome # "ok"
              THEN [@ EXCEPT !.pc = "done",
                             !.response = ErrorResponse(500, result.outcome)]
              ELSE IF requests[r].locals.pending # {i}
              THEN [@ EXCEPT !.locals.all = all, !.locals.pending = @ \ {i}]
              ELSE StatsAnswer(@, all)]
    /\ UNCHANGED <<ledgerVars, chainVars, lastTx>>

\* ------------------------------------------------------------ the readers
\* The read handlers share nothing but the ledger, so one request in flight
\* shows everything a read can observe.
ReadRequestIds == {"r1"}

\* A read request in flight while any account sends any transaction.  A
\* transaction that reverts leaves the storage as it was and a read sees
\* nothing of it, so the transactions here are the ones that succeed.
NextRead ==
    \/ /\ lastTx = NoTx
       /\ \/ \E r \in ReadRequestIds, evidenceId \in KnownIds : GetReceive(r, evidenceId)
          \/ \E r \in ReadRequestIds : GetEvidenceAnswered(r)
          \/ \E r \in ReadRequestIds : GetAuditLogsAnswered(r)
          \/ \E r \in ReadRequestIds : StatsReceive(r)
          \/ \E r \in ReadRequestIds : StatsCountAnswered(r)
          \/ \E r \in ReadRequestIds : StatsIdsAnswered(r)
          \/ \E r \in ReadRequestIds, i \in 1..MaxEntries : StatsEvidenceAnswered(r, i)
          \/ /\ UNCHANGED requests
             /\ \/ \E sender \in Addresses, fileHash \in FileHashes,
                      ipfsHash \in IpfsHashes, fileName \in FileNames,
                      fileType \in FileTypes, fileSize \in FileSizes,
                      description \in Descriptions, caseId \in CaseIds :
                      /\ AddEvidenceOutcome(fileHash, fileName) = "ok"
                      /\ AddEvidence(sender, fileHash, ipfsHash, fileName, fileType,
                                     fileSize, description, caseId)
                \/ \E sender \in Addresses, evidenceId \in KnownIds :
                      /\ SealEvidenceOutcome(sender, evidenceId) = "ok"
                      /\ SealEvidence(sender, evidenceId)
                \/ \E sender \in Addresses, evidenceId \in KnownIds,
                      newStatus \in EvidenceStatus, notes \in NotesArgs :
                      /\ UpdateStatusOutcome(sender, evidenceId) = "ok"
                      /\ UpdateStatus(sender, evidenceId, newStatus, notes)
                \/ \E sender \in Addresses, evidenceId \in KnownIds,
                      action \in ActionArgs, notes \in NotesArgs :
                      /\ LogAuditOutcome(sender, evidenceId) = "ok"
                      /\ LogAudit(sender, evidenceId, action, notes)
                \/ MineBlock
    \/ Return

SpecRead == Init /\ [][NextRead]_vars

\* --------------------------------------------- POST /:evidenceId/seal
\* The catch block of the seal handler.
SealFailed(request, message) ==
    [request EXCEPT !.pc = "done", !.response = ErrorResponse(500, message)]

\* The request arrives; blockchain.sealEvidence starts with its gas estimate.
SealReceive(r, evidenceId, fromAddress) ==
    /\ Arrives(r)
    /\ requests' = [requests EXCEPT ![r] =
          [NoRequest EXCEPT !.kind = "seal", !.pc = "estimateGas",
                            !.evidenceId = evidenceId,
                            !.from = FromOf(fromAddress)]]
    /\ UNCHANGED <<ledgerVars, chainVars, lastTx>>

\* estimateGas runs sealEvidence on the storage of the moment without sending
\* it, and throws when it reverts.
SealEstimateGas(r) ==
    /\ At(r, "seal", "estimateGas")
    /\ LET outcome == SealEvidenceOutcome(requests[r].from, requests[r].evidenceId)
       IN  requests' = [requests EXCEPT ![r] =
              IF outcome = "ok" THEN [@ EXCEPT !.pc = "send"]
              ELSE SealFailed(@, outcome)]
    /\ UNCHANGED <<ledgerVars, chainVars, lastTx>>

\* send: the sealEvidence transaction runs; the handler answers 200 on its
\* receipt, and a revert throws.
SealSend(r) ==
    /\ At(r, "seal", "send")
    /\ SealEvidence(requests[r].from, requests[r].evidenceId)
    /\ requests' = [requests EXCEPT ![r] =
          IF lastTx'.outcome = "ok"
          THEN [@ EXCEPT !.pc = "done",
                         !.response = [NoResponse EXCEPT !.status = 200]]
          ELSE SealFailed(@, lastTx'.outcome)]

\* Seal requests in flight, next to the registrations that create the records
\* and the seal transactions that other accounts send to the contract
\* themselves.  (sealEvidence reads nothing that updateStatus or logAudit
\* write, a reverted registration leaves the storage as it was, and the block
\* only stamps the audit entry: the requests of a run fall into one block.)
NextSeal ==
    \/ /\ lastTx = NoTx
       /\ \/ \E r \in RequestIds, evidenceId \in KnownIds,
                fromAddress \in BodyAddresses :
                SealReceive(r, evidenceId, fromAddress)
          \/ \E r \in RequestIds : SealEstimateGas(r)
          \/ \E r \in RequestIds : SealSend(r)
          \/ /\ UNCHANGED requests
             /\ \/ \E sender \in Addresses, fileHash \in FileHashes,
                      ipfsHash \in IpfsHashes, fileName \in FileNames,
                      fileType \in FileTypes, fileSize \in FileSizes,
                      description \in Descriptions, caseId \in CaseIds :
                      /\ AddEvidenceOutcome(fileHash, fileName) = "ok"
                      /\ AddEvidence(sender, fileHash, ipfsHash, fileName, fileType,
                                     fileSize, description, caseId)
                \/ \E sender \in Addresses, evidenceId \in KnownIds :
                      SealEvidence(sender, evidenceId)
    \/ Return

SpecSeal == Init /\ [][NextSeal]_vars

\* ================================================================ claims
\* A step that is a transaction: it leaves its result in lastTx.
IsTx == lastTx = NoTx /\ lastTx' # NoTx

\* s is a prefix of t.
IsPrefix(s, t) == Len(s) <= Len(t) /\ SubSeq(t, 1, Len(s)) = s

\* The records of the ledger.
Records == {evidenceId \in DOMAIN evidenceStore : evidenceExists(evidenceId)}

\* C1: in every reachable state no two records carry the same content hash.
C1_UniqueContentHash ==
    \A a, b \in Records :
        evidenceStore[a].fileHash = evidenceStore[b].fileHash => a = b

\* Two records exist and a further addEvidence of a registered hash was rejected.
C1_Witness ==
    /\ Cardinality(Records) = 2
    /\ lastTx.fn = "addEvidence"
    /\ lastTx.outcome = "Evidence with this hash already exists"

\* C2: once a record is sealed, no step changes its status.
C2_SealedStatusFrozen ==
    [][\A evidenceId \in Records :
          evidenceStore[evidenceId].isSealed =>
              evidenceStore'[evidenceId].status = evidenceStore[evidenceId].status]_vars

\* A record whose status was changed and which was then sealed has just
\* rejected an updateStatus of its uploader or of the owner.
C2_Witness ==
    /\ lastTx.fn = "updateStatus"
    /\ lastTx.outcome = "Evidence is sealed"
    /\ lastTx.sender \in {owner, StoreAt(lastTx.evidenceId).uploader}
    /\ StoreAt(lastTx.evidenceId).isSealed
    /\ StoreAt(lastTx.evidenceId).status # "Active"

\* C3: the sealed flag is false when a record is created, and no step takes
\* it from true to false.
C3_SealedMonotonic ==
    [][\A evidenceId \in Records' :
          /\ evidenceId \notin Records => ~evidenceStore'[evidenceId].isSealed
          /\ (evidenceId \in Records /\ evidenceStore[evidenceId].isSealed)
                => evidenceStore'[evidenceId].isSealed]_vars

\* A sealed record has just rejected a second sealEvidence.
C3_Witness ==
    /\ lastTx.fn = "sealEvidence"
    /\ lastTx.outcome = "Evidence is sealed"
    /\ StoreAt(lastTx.evidenceId).isSealed

\* The caller of lastTx' is neither the uploader of the record it names nor the owner.
C4_Stranger ==
    /\ lastTx'.sender # StoreAt(lastTx'.evidenceId).uploader
    /\ lastTx'.sender # owner

\* C4: a sealEvidence or updateStatus transaction changes the ledger only when
\* its sender is the uploader of the record or the owner; sent by anyone else
\* on an existing unsealed record it reverts with the authorization reason and
\* leaves the records (sealed flag, status) and the audit logs unchanged.
C4_OnlyUploaderOrOwner ==
    [][(IsTx /\ lastTx'.fn \in {"sealEvidence", "updateStatus"} /\ C4_Stranger) =>
          /\ ledgerVars' = ledgerVars
          /\ (evidenceExists(lastTx'.evidenceId) /\ notSealed(lastTx'.evidenceId)) =>
                lastTx'.outcome = IF lastTx'.fn = "sealEvidence"
                                  THEN "Not authorized to seal"
                                  ELSE "Not authorized"]_vars

\* An unsealed record has just rejected a sealEvidence of a caller that is
\* neither its uploader nor the owner.
C4_Witness ==
    /\ lastTx.fn = "sealEvidence"
    /\ lastTx.outcome = "Not authorized to seal"
    /\ lastTx.sender \notin {owner, StoreAt(lastTx.evidenceId).uploader}
    /\ evidenceExists(lastTx.evidenceId)
    /\ notSealed(lastTx.evidenceId)

\* C5: across every step the audit log of every record is a prefix of its log
\* after the step.
C5_AuditLogAppendOnly ==
    [][\A evidenceId \in DOMAIN auditLogs :
          /\ evidenceId \in DOMAIN auditLogs'
          /\ IsPrefix(auditLogs[evidenceId], auditLogs'[evidenceId])]_vars

\* A logAudit has just pushed the third entry of a log.
C5_Witness ==
    /\ lastTx.fn = "logAudit"
    /\ lastTx.outcome = "ok"
    /\ Len(LogsAt(lastTx.evidenceId)) = 3

\* Some record holds the content hash h.
Registered(h) == \E evidenceId \in Records : evidenceStore[evidenceId].fileHash = h

\* C6: an addEvidence of a content hash that is already registered (with a
\* file name, so that it is not invalid input) fails with the already-exists
\* reason, hands the id of the original record to its caller, and leaves the
\* ledger as it was.
C6_DuplicateReturnsOriginalId ==
    [][(IsTx /\ lastTx'.fn = "addEvidence" /\ lastTx'.fileName # ""
          /\ Registered(lastTx'.fileHash)) =>
          /\ lastTx'.outcome = "Evidence with this hash already exists"
          /\ lastTx'.ret = hashToId[lastTx'.fileHash]
          /\ ledgerVars' = ledgerVars]_vars

\* The arguments of the transaction lastTx' meet, in the state before it, one
\* of the failure conditions of its function.
C7_MustFail ==
    \/ /\ lastTx'.fn = "addEvidence"
       /\ \/ lastTx'.fileHash = ""
          \/ lastTx'.fileName = ""
          \/ Registered(lastTx'.fileHash)
    \/ /\ lastTx'.fn \in {"sealEvidence", "updateStatus"}
       /\ \/ lastTx'.evidenceId \notin Records
          \/ StoreAt(lastTx'.evidenceId).isSealed
          \/ C4_Stranger

\* C7: addEvidence, sealEvidence and updateStatus are all-or-nothing: a call
\* that meets a failure condition (invalid input, hash already registered, no
\* such record, record sealed, caller not authorized) fails, and a call that
\* fails leaves the records, the hash index, the id lists, the counter and the
\* audit logs exactly as they were.
C7_AllOrNothing ==
    [][(IsTx /\ lastTx'.fn \in {"addEvidence", "sealEvidence", "updateStatus"}
          /\ (C7_MustFail \/ lastTx'.outcome # "ok")) =>
          /\ lastTx'.outcome # "ok"
          /\ ledgerVars' = ledgerVars]_vars

\* A ledger of two records, one of them sealed, has just rejected a
\* sealEvidence on an id of no record.
C7_Witness ==
    /\ Cardinality(Records) = 2
    /\ \E evidenceId \in Records : evidenceStore[evidenceId].isSealed
    /\ lastTx.fn = "sealEvidence"
    /\ lastTx.outcome = "Evidence not found"

\* C8: an updateStatus on a sealed record fails with the sealed reason,
\* whoever sends it and whatever status it asks for.
C8_UpdateAfterSealRejected ==
    (lastTx.fn = "updateStatus" /\ StoreAt(lastTx.evidenceId).isSealed) =>
        lastTx.outcome = "Evidence is sealed"

\* A sealed record has just rejected the updateStatus of a caller that is
\* neither its uploader nor the owner, with the sealed reason.
C8_Witness ==
    /\ lastTx.fn = "updateStatus"
    /\ StoreAt(lastTx.evidenceId).isSealed
    /\ lastTx.sender \notin {owner, StoreAt(lastTx.evidenceId).uploader}
    /\ lastTx.outcome = "Evidence is sealed"

\* C9: a logAudit on an existing record succeeds for every sender, sealed or
\* not, and pushes exactly one entry on the log of that record and nothing
\* else; on an id of no record it fails with not-found.
C9_LogAuditAlwaysAppends ==
    [][(IsTx /\ lastTx'.fn = "logAudit") =>
          IF lastTx'.evidenceId \in Records
          THEN /\ lastTx'.outcome = "ok"
               /\ Len(auditLogs'[lastTx'.evidenceId])
                     = Len(auditLogs[lastTx'.evidenceId]) + 1
               /\ IsPrefix(auditLogs[lastTx'.evidenceId], auditLogs'[lastTx'.evidenceId])
               /\ \A other \in DOMAIN auditLogs \ {lastTx'.evidenceId} :
                     auditLogs'[other] = auditLogs[other]
               /\ evidenceStore' = evidenceStore
          ELSE /\ lastTx'.outcome = "Evidence not found"
               /\ ledgerVars' = ledgerVars]_vars

\* A caller that is neither the uploader nor the owner has just logged an
\* entry on a sealed record.
C9_Witness ==
    /\ lastTx.fn = "logAudit"
    /\ lastTx.outcome = "ok"
    /\ StoreAt(lastTx.evidenceId).isSealed
    /\ lastTx.sender \notin {owner, StoreAt(lastTx.evidenceId).uploader}
    /\ auditLogs[lastTx.evidenceId][Len(auditLogs[lastTx.evidenceId])].actor
          = lastTx.sender

\* C10: every record has a non-empty audit log whose first entry is the
\* creation marker signed by the uploader at the registration time, and right
\* after a successful addEvidence the log of the new record is that one entry.
C10_CreationMarkerFirst ==
    /\ \A evidenceId \in Records :
          /\ Len(LogsAt(evidenceId)) >= 1
          /\ LogsAt(evidenceId)[1] =
                AuditLog(evidenceStore[evidenceId].uploader, "EVIDENCE_ADDED",
                         evidenceStore[evidenceId].timestamp, "Initial upload")
    /\ (lastTx.fn = "addEvidence" /\ lastTx.outcome = "ok") =>
          /\ lastTx.ret \in Records
          /\ Len(LogsAt(lastTx.ret)) = 1

\* The second record, uploaded by an account other than the owner, has just
\* been created while the first record's log already holds a later entry.
C10_Witness ==
    /\ lastTx.fn = "addEvidence"
    /\ lastTx.outcome = "ok"
    /\ lastTx.sender # owner
    /\ Cardinality(Records) = 2
    /\ \E evidenceId \in Records : Len(LogsAt(evidenceId)) = 2

\* C11: a successful addEvidence with a non-empty hash and name that is not
\* yet registered creates exactly one record, Active and not sealed, maps the
\* hash to the new id, appends the id at the end of allEvidenceIds and of the
\* caller's list, adds one to totalEvidence, and leaves the new record with an
\* audit log of length 1.
C11_RegisterEffect ==
    [][(/\ IsTx
        /\ lastTx'.fn = "addEvidence"
        /\ lastTx'.fileHash # ""
        /\ lastTx'.fileName # ""
        /\ ~Registered(lastTx'.fileHash))
       => LET evidenceId == lastTx'.ret
              sender == lastTx'.sender
          IN  /\ lastTx'.outcome = "ok"
              /\ evidenceId \notin DOMAIN evidenceStore
              /\ DOMAIN evidenceStore' = DOMAIN evidenceStore \cup {evidenceId}
              /\ \A other \in DOMAIN evidenceStore :
                    /\ evidenceStore'[other] = evidenceStore[other]
                    /\ auditLogs'[other] = auditLogs[other]
              /\ evidenceStore'[evidenceId].fileHash = lastTx'.fileHash
              /\ evidenceStore'[evidenceId].status = "Active"
              /\ evidenceStore'[evidenceId].isSealed = FALSE
              /\ hashToId' = [hashToId EXCEPT ![lastTx'.fileHash] = evidenceId]
              /\ allEvidenceIds' = Append(allEvidenceIds, evidenceId)
              /\ uploaderEvidence' =
                    [uploaderEvidence EXCEPT ![sender] = Append(@, evidenceId)]
              /\ totalEvidence' = totalEvidence + 1
              /\ Len(auditLogs'[evidenceId]) = 1]_vars

\* The second registration of an uploader succeeded: both its list and the
\* global list had an entry to append after.
C11_Witness ==
    /\ lastTx.fn = "addEvidence"
    /\ lastTx.outcome = "ok"
    /\ Len(uploaderEvidence[lastTx.sender]) = 2
    /\ Len(allEvidenceIds) = 2
    /\ allEvidenceIds[2] = lastTx.ret
    /\ totalEvidence = 2

\* Two upload requests for the same content.
SameContent(r1, r2) ==
    /\ r1 # r2
    /\ requests[r1].kind = "upload"
    /\ requests[r2].kind = "upload"
    /\ requests[r1].fileHash # ""
    /\ requests[r1].fileHash = requests[r2].fileHash

\* C12: of two upload requests for the same content hash, whatever the order
\* of their duplicate checks, gas estimates and transactions, at most one
\* registers a record: they are never both answered 201, and the ledger never
\* holds more than one record of that hash.
C12_ConcurrentUploadsAtMostOne ==
    \A r1, r2 \in RequestIds :
        SameContent(r1, r2)
        => /\ ~(requests[r1].response.status = 201 /\ requests[r2].response.status = 201)
           /\ Cardinality({evidenceId \in Records :
                 evidenceStore[evidenceId].fileHash = requests[r1].fileHash}) <= 1

\* Both requests passed the duplicate check and the gas estimate before either
\* registered; then one registered and the other's transaction reverted.
C12_Witness ==
    \E r1, r2 \in RequestIds :
        /\ SameContent(r1, r2)
        /\ requests[r1].response.status = 201
        /\ requests[r2].response.status = 500
        /\ lastTx.fn = "addEvidence"
        /\ lastTx.outcome = "Evidence with this hash already exists"
        /\ lastTx.fileHash = requests[r2].fileHash

\* C13: an upload whose content is already registered when the ledger
\* processes its registration ends with the conflict response carrying the id
\* of the existing record.  (An upload with a file and a name fails on the
\* ledger for no other reason, so it ends either with 201 and the id it
\* registered or with 409 and the id of the record that holds its hash.)
C13_DuplicateUploadGetsConflict ==
    \A r \in RequestIds :
        (At(r, "upload", "done") /\ requests[r].fileHash # "")
        => /\ requests[r].response.status \in {201, 409}
           /\ requests[r].response.evidenceId = hashToId[requests[r].fileHash]

\* C14: the numbers a stats response carries are those of one ledger state;
\* in particular its total is the number of records the handler scanned, and
\* is not smaller than its active, sealed or disputed count.
C14_StatsSnapshot ==
    \A r \in RequestIds :
        (At(r, "stats", "done") /\ requests[r].response.status = 200)
        => LET stats == requests[r].response.data
           IN  /\ stats.total = Len(requests[r].locals.all)
               /\ stats.total >= stats.active
               /\ stats.total >= stats.sealed
               /\ stats.total >= stats.disputed

\* An entry written by sealEvidence.
HasSealEntry(log) == \E i \in DOMAIN log : log[i].action = "EVIDENCE_SEALED"

\* C15: the record and the audit log of a get response are those of one
\* ledger state; in particular a response never shows the record unsealed
\* next to a log that already holds the entry written by its seal.
C15_GetSnapshot ==
    \A r \in RequestIds :
        (At(r, "get", "done") /\ requests[r].response.status = 200)
        => LET data == requests[r].response.data
           IN  HasSealEntry(data.auditLogs) => data.evidence.isSealed

\* Two seal requests for one record.
SameRecord(r1, r2) ==
    /\ r1 # r2
    /\ requests[r1].kind = "seal"
    /\ requests[r2].kind = "seal"
    /\ requests[r1].evidenceId = requests[r2].evidenceId

\* C20: for each record at most one seal ever succeeds.  A sealEvidence
\* transaction on a record that is already sealed, by any sender, reverts
\* with "Evidence is sealed" and changes nothing; a seal request that finishes
\* when the record is already sealed is answered with that error, also when it
\* had passed its gas estimate before the other request's transaction sealed
\* the record.
C20_SealOnce ==
    [][/\ (IsTx /\ lastTx'.fn = "sealEvidence"
                /\ StoreAt(lastTx'.evidenceId).isSealed)
          => /\ lastTx'.outcome = "Evidence is sealed"
             /\ UNCHANGED ledgerVars
       /\ \A r \in RequestIds :
             (/\ requests[r].kind = "seal"
              /\ requests[r].pc # "done"
              /\ requests'[r].pc = "done"
              /\ StoreAt(requests[r].evidenceId).isSealed)
             => /\ requests'[r].response.status = 500
                /\ requests'[r].response.error = "Evidence is sealed"
                /\ UNCHANGED ledgerVars
       /\ \A r1, r2 \in RequestIds :
             SameRecord(r1, r2)
             => ~(requests'[r1].response.status = 200
                  /\ requests'[r2].response.status = 200)]_vars

\* Both requests passed the gas estimate while the record was unsealed; one
\* sealed it and the transaction of the other reverted.
C20_Witness ==
    \E r1, r2 \in RequestIds :
        /\ SameRecord(r1, r2)
        /\ requests[r1].response.status = 200
        /\ requests[r2].response.status = 500
        /\ lastTx.fn = "sealEvidence"
        /\ lastTx.outcome = "Evidence is sealed"
        /\ lastTx.evidenceId = requests[r2].evidenceId

\* No transaction result is pending.  Return leaves the ledger as it is, so
\* every ledger state of a run occurs in such a state; the view functions are
\* examined there.
Settled == lastTx = NoTx

C17_ValidOnlyWhenActive ==
    \A fileHash \in FileHashes :
        VerifyEvidence(fileHash).isValid
        => StoreAt(VerifyEvidence(fileHash).evidenceId).status = "Active"

\* C18: no two records share an id.  The ids of allEvidenceIds are pairwise
\* different, none of them replaced an earlier record (there are as many
\* records as registrations), the registered hashes have as many different
\* ids, and getEvidence on the id of a hash returns the record of that hash.
C18_UniqueIds ==
    Settled =>
    /\ Cardinality({allEvidenceIds[i] : i \in DOMAIN allEvidenceIds}) = Len(allEvidenceIds)
    /\ Cardinality(DOMAIN evidenceStore) = Len(allEvidenceIds)
    /\ Cardinality({hashToId[h] : h \in FileHashes} \ {ZeroId}) = Len(allEvidenceIds)
    /\ \A fileHash \in FileHashes :
          hashToId[fileHash] # ZeroId
          => LET got == GetEvidence(hashToId[fileHash])
             IN  got.outcome = "ok" /\ got.ret.fileHash = fileHash

\* Two hashes registered by one account in one block, in the same second.
C18_Witness ==
    /\ Settled
    /\ Len(allEvidenceIds) = 2
    /\ evidenceStore[allEvidenceIds[1]].uploader = evidenceStore[allEvidenceIds[2]].uploader
    /\ evidenceStore[allEvidenceIds[1]].timestamp = evidenceStore[allEvidenceIds[2]].timestamp
    /\ allEvidenceIds[1][4] = allEvidenceIds[2][4]
    /\ evidenceStore[allEvidenceIds[1]].fileHash # evidenceStore[allEvidenceIds[2]].fileHash

\* C19 as stated: every addEvidence call derives its id with a counter value
\* strictly larger than that of every earlier call.  (The fourth component
\* of an id is the counter it was derived with.)
C19_CounterStrictlyIncreasing ==
    \A i, j \in DOMAIN allEvidenceIds :
        i < j => allEvidenceIds[i][4] < allEvidenceIds[j][4]

\* C19, amended: the id of a record is derived from its content hash, its
\* registering account, its registration time and the number of the block
\* that holds the call.  The block number never decreases from one call to
\* the next, but calls of one block share it; their ids differ all the same.
C19_CounterNonDecreasing ==
    Settled =>
    /\ \A evidenceId \in Records :
          /\ evidenceId[1] = evidenceStore[evidenceId].fileHash
          /\ evidenceId[2] = evidenceStore[evidenceId].uploader
          /\ evidenceId[3] = evidenceStore[evidenceId].timestamp
          /\ evidenceId[4] <= blockNumber
    /\ \A i, j \in DOMAIN allEvidenceIds :
          i < j => /\ allEvidenceIds[i][4] <= allEvidenceIds[j][4]
                   /\ allEvidenceIds[i] # allEvidenceIds[j]

\* Two addEvidence calls of one block derived their ids with the same block
\* number, and the chain has moved on since.
C19_Witness ==
    /\ Settled
    /\ Len(allEvidenceIds) = 2
    /\ allEvidenceIds[1][4] = allEvidenceIds[2][4]
    /\ allEvidenceIds[2][4] < blockNumber

\* C22: records are never deleted.  In every step, an id that getEvidence
\* returns a record for keeps being returned with the same file hash, the
\* total never decreases, and allEvidenceIds and every uploader's list only
\* grow at the end.
C22_NeverDeleted ==
    [][ledgerVars' # ledgerVars =>
       /\ \A evidenceId \in DOMAIN evidenceStore :
             GetEvidence(evidenceId).outcome = "ok"
             => /\ evidenceId \in DOMAIN evidenceStore'
                /\ evidenceStore'[evidenceId].fileHash = evidenceStore[evidenceId].fileHash
                /\ evidenceStore'[evidenceId].fileHash # ""
       /\ totalEvidence' >= totalEvidence
       /\ IsPrefix(allEvidenceIds, allEvidenceIds')
       /\ \A a \in Addresses : IsPrefix(uploaderEvidence[a], uploaderEvidence'[a])]_vars

\* A second record was registered and then the first one was sealed: both
\* are still there.
C22_Witness ==
    /\ Len(allEvidenceIds) = 2
    /\ totalEvidence = 2
    /\ lastTx.fn = "sealEvidence"
    /\ lastTx.outcome = "ok"
    /\ lastTx.evidenceId = allEvidenceIds[1]
    /\ GetEvidence(allEvidenceIds[1]).outcome = "ok"
    /\ GetEvidence(allEvidenceIds[2]).outcome = "ok"

\* The ids of the sequence ids whose record in store was registered by a, in
\* the order of ids.
RECURSIVE RegisteredBy(_, _, _)
RegisteredBy(store, ids, a) ==
    IF ids = <<>> THEN <<>>
    ELSE IF store[Head(ids)].uploader = a
         THEN <<Head(ids)>> \o RegisteredBy(store, Tail(ids), a)
         ELSE RegisteredBy(store, Tail(ids), a)

C24_OwnerFixed ==
    [][/\ owner \in Deployers
       /\ owner' = owner]_vars

\* An account other than the owner has registered a record and has written
\* to its audit log; the owner is still the deployer.
C24_Witness ==
    /\ lastTx.fn = "logAudit"
    /\ lastTx.outcome = "ok"
    /\ lastTx.sender # owner
    /\ StoreAt(lastTx.evidenceId).uploader = lastTx.sender
    /\ owner \in Deployers

\* C28: getEvidence(id) reverts with "Evidence not found" exactly when no
\* record has that id, getEvidenceByHash(h) reverts with "Evidence not found"
\* exactly when no record has hash h, and for every registered hash h
\* getEvidenceByHash(h) returns the record that getEvidence returns for the id
\* verifyEvidence(h) reports, and the fileHash of that record is h.
C28_LookupsAgree ==
    Settled =>
    /\ \A evidenceId \in KnownIds \cup {ZeroId} :
          IF \E i \in DOMAIN allEvidenceIds : allEvidenceIds[i] = evidenceId
          THEN GetEvidence(evidenceId) = Returned(evidenceStore[evidenceId])
          ELSE GetEvidence(evidenceId) = Reverted("Evidence not found")
    /\ \A fileHash \in FileHashes :
          IF \E i \in DOMAIN allEvidenceIds :
                evidenceStore[allEvidenceIds[i]].fileHash = fileHash
          THEN /\ GetEvidenceByHash(fileHash).outcome = "ok"
               /\ GetEvidenceByHash(fileHash)
                     = GetEvidence(VerifyEvidence(fileHash).evidenceId)
               /\ GetEvidenceByHash(fileHash).ret.fileHash = fileHash
          ELSE GetEvidenceByHash(fileHash) = Reverted("Evidence not found")

\* One hash is registered and found by both lookups, another hash is not
\* registered and its lookup reverts, as does the lookup of an unknown id.
C28_Witness ==
    /\ Settled
    /\ Len(allEvidenceIds) = 1
    /\ GetEvidenceByHash("a1f0") = GetEvidence(allEvidenceIds[1])
    /\ GetEvidenceByHash("a1f0").outcome = "ok"
    /\ GetEvidenceByHash("b2e1").outcome = "Evidence not found"
    /\ GetEvidence(UnknownId).outcome = "Evidence not found"

\* The sum of the lengths of the per-uploader lists of the given accounts.
RECURSIVE UploaderListsLength(_)
UploaderListsLength(accounts) ==
    IF accounts = {} THEN 0
    ELSE LET a == CHOOSE x \in accounts : TRUE
         IN  Len(uploaderEvidence[a]) + UploaderListsLength(accounts \ {a})

\* The number of positions of list at which id stands.
Occurrences(list, id) == Cardinality({i \in DOMAIN list : list[i] = id})

\* C30: in every reachable state the bookkeeping of the registry agrees with
\* the records: totalEvidence equals the length of allEvidenceIds, the number
\* of stored records and the sum of the lengths of the per-uploader lists;
\* the id of every record stands exactly once in allEvidenceIds, exactly once
\* in the list of its uploader and in the list of no other account; and
\* hashToId maps h to id exactly when the record with that id has hash h.
C30_BookkeepingAgrees ==
    Settled =>
    /\ totalEvidence = Len(allEvidenceIds)
    /\ totalEvidence = Cardinality(Records)
    /\ totalEvidence = Cardinality(DOMAIN evidenceStore)
    /\ totalEvidence = UploaderListsLength(DOMAIN uploaderEvidence)
    /\ \A evidenceId \in Records :
          /\ Occurrences(allEvidenceIds, evidenceId) = 1
          /\ \A a \in DOMAIN uploaderEvidence :
                Occurrences(uploaderEvidence[a], evidenceId)
                   = IF a = evidenceStore[evidenceId].uploader THEN 1 ELSE 0
          /\ evidenceStore[evidenceId].uploader \in DOMAIN uploaderEvidence
    /\ \A fileHash \in FileHashes :
          \A evidenceId \in KnownIds \cup {ZeroId} :
             hashToId[fileHash] = evidenceId /\ evidenceId # ZeroId
             <=> evidenceId \in Records /\ evidenceStore[evidenceId].fileHash = fileHash

\* Two accounts have registered one record each.
C30_Witness ==
    /\ Settled
    /\ totalEvidence = 2
    /\ Len(uploaderEvidence["0xA"]) = 1
    /\ Len(uploaderEvidence["0xB"]) = 1
    /\ hashToId["a1f0"] = uploaderEvidence["0xB"][1]
    /\ hashToId["b2e1"] = uploaderEvidence["0xA"][1]

\* C29: the audit log records every action taken on a record: each successful
\* addEvidence, sealEvidence, updateStatus and logAudit appends exactly one
\* entry to the log of the id it acts on, with the caller as its actor, and
\* leaves every other log as it was; no other step changes any log.  A log
\* therefore starts with the entry of the registration and its length is one
\* plus the number of successful seal, update and logAudit calls on its id.
C29_EveryActionLogged ==
    [][(ledgerVars' # ledgerVars \/ IsTx) =>
       /\ IF IsTx /\ lastTx'.outcome = "ok"
          THEN LET evidenceId == IF lastTx'.fn = "addEvidence" THEN lastTx'.ret
                                 ELSE lastTx'.evidenceId
               IN  /\ lastTx'.fn = "addEvidence" <=> LogsAt(evidenceId) = <<>>
                   /\ Len(auditLogs'[evidenceId]) = Len(LogsAt(evidenceId)) + 1
                   /\ IsPrefix(LogsAt(evidenceId), auditLogs'[evidenceId])
                   /\ auditLogs'[evidenceId][Len(auditLogs'[evidenceId])].actor
                         = lastTx'.sender
                   /\ auditLogs'[evidenceId][1].action = "EVIDENCE_ADDED"
                   /\ \A other \in DOMAIN auditLogs' \ {evidenceId} :
                         /\ other \in DOMAIN auditLogs
                         /\ auditLogs'[other] = auditLogs[other]
          ELSE auditLogs' = auditLogs
       /\ DOMAIN auditLogs' = DOMAIN evidenceStore']_vars

\* A record registered by one account carries three entries: that of its
\* registration, that of its sealing by the owner, and that of a later
\* logAudit by the registering account.
C29_Witness ==
    /\ lastTx.fn = "logAudit"
    /\ lastTx.outcome = "ok"
    /\ Len(LogsAt(lastTx.evidenceId)) = 3
    /\ LogsAt(lastTx.evidenceId)[1].actor = "0xB"
    /\ LogsAt(lastTx.evidenceId)[2].actor = "0xA"
    /\ LogsAt(lastTx.evidenceId)[2].action = "EVIDENCE_SEALED"
    /\ LogsAt(lastTx.evidenceId)[3].actor = "0xB"

\* C25: while a record is not sealed, updateStatus called by its uploader or
\* by the owner succeeds for every new status, from every current status and
\* however many updates came before; a successful call sets the status to
\* the given one, changes nothing else of the record, and appends exactly one
\* STATUS_UPDATED entry carrying the given notes.
C25_AnyStatusToAnyStatus ==
    [][IsTx /\ lastTx'.fn = "updateStatus" =>
       LET sender == lastTx'.sender
           evidenceId == lastTx'.evidenceId
       IN  /\ evidenceExists(evidenceId) /\ notSealed(evidenceId)
              /\ sender \in {StoreAt(evidenceId).uploader, owner}
              => lastTx'.outcome = "ok"
           /\ lastTx'.outcome = "ok"
              => \A newStatus \in EvidenceStatus, notes \in NotesArgs :
                    UpdateStatus(sender, evidenceId, newStatus, notes)
                    => /\ evidenceStore'[evidenceId]
                             = [evidenceStore[evidenceId] EXCEPT !.status = newStatus]
                       /\ auditLogs'[evidenceId]
                             = Append(auditLogs[evidenceId],
                                      AuditLog(sender, "STATUS_UPDATED",
                                               blockTimestamp, notes))
           /\ lastTx'.outcome = "ok"
              => evidenceStore'[evidenceId].status \in EvidenceStatus]_vars

\* A record registered by one account has been updated twice, by its uploader
\* and by the owner, and is Active again.
C25_Witness ==
    /\ lastTx.fn = "updateStatus"
    /\ lastTx.outcome = "ok"
    /\ Len(LogsAt(lastTx.evidenceId)) = 3
    /\ LogsAt(lastTx.evidenceId)[2].action = "STATUS_UPDATED"
    /\ LogsAt(lastTx.evidenceId)[3].action = "STATUS_UPDATED"
    /\ LogsAt(lastTx.evidenceId)[3].notes = "reviewed"
    /\ {LogsAt(lastTx.evidenceId)[2].actor, LogsAt(lastTx.evidenceId)[3].actor}
          = {"0xA", "0xB"}
    /\ StoreAt(lastTx.evidenceId).uploader = "0xB"
    /\ StoreAt(lastTx.evidenceId).status = "Active"

\* ------------------------------------------------------- a caller's session
\* One account calls the contract four times in a row, each call after the
\* receipt of the one before: addEvidence, sealEvidence on the id returned,
\* updateStatus to Disputed on it, and logAudit on it (by any account).  The
\* session keeps the id in evidenceId and the outcomes of the calls, in
\* order, in locals.
SessionIds == {"r1"}

\* addEvidence; a reverted registration ends the session.
SessionAddEvidence(r, sender, fileHash, fileName) ==
    /\ r \in SessionIds
    /\ Arrives(r)
    /\ \E ipfsHash \in IpfsHashes, fileType \in FileTypes, fileSize \in FileSizes,
          description \in Descriptions, caseId \in CaseIds :
          AddEvidence(sender, fileHash, ipfsHash, fileName, fileType, fileSize,
                      description, caseId)
    /\ requests' = [requests EXCEPT ![r] =
          [NoRequest EXCEPT !.kind = "session",
                            !.pc = IF lastTx'.outcome = "ok" THEN "sealEvidence"
                                   ELSE "done",
                            !.from = sender,
                            !.fileHash = fileHash,
                            !.fileName = fileName,
                            !.evidenceId = lastTx'.ret,
                            !.locals = <<lastTx'.outcome>>]]

\* sealEvidence(evidenceId) by the account that registered it.
SessionSealEvidence(r) ==
    /\ At(r, "session", "sealEvidence")
    /\ SealEvidence(requests[r].from, requests[r].evidenceId)
    /\ requests' = [requests EXCEPT ![r] =
          [@ EXCEPT !.pc = "updateStatus",
                    !.locals = Append(@, lastTx'.outcome)]]

\* updateStatus(evidenceId, Disputed, notes) by the same account.
SessionUpdateStatus(r, notes) ==
    /\ At(r, "session", "updateStatus")
    /\ UpdateStatus(requests[r].from, requests[r].evidenceId, "Disputed", notes)
    /\ requests' = [requests EXCEPT ![r] =
          [@ EXCEPT !.pc = "logAudit",
                    !.locals = Append(@, lastTx'.outcome)]]

\* logAudit(evidenceId, "NOTE", "reviewed")
SessionLogAudit(r, sender) ==
    /\ At(r, "session", "logAudit")
    /\ LogAudit(sender, requests[r].evidenceId, "NOTE", "reviewed")
    /\ requests' = [requests EXCEPT ![r] =
          [@ EXCEPT !.pc = "done",
                    !.locals = Append(@, lastTx'.outcome)]]

\* No other transaction acts on the record of a session.
SessionRecordUntouched ==
    \A r \in SessionIds :
        requests[r].kind = "session"
        => /\ StoreAt(requests[r].evidenceId)' = StoreAt(requests[r].evidenceId)
           /\ LogsAt(requests[r].evidenceId)' = LogsAt(requests[r].evidenceId)

\* The session and the transactions that other callers get through on other
\* records.  (A reverted transaction leaves the storage as it was, and the
\* block only stamps the entries: the calls of a run fall into one block.)
NextSession ==
    \/ /\ lastTx = NoTx
       /\ \/ \E r \in SessionIds, sender \in Addresses,
                fileHash \in FileHashes, fileName \in FileNames :
                SessionAddEvidence(r, sender, fileHash, fileName)
          \/ \E r \in SessionIds : SessionSealEvidence(r)
          \/ \E r \in SessionIds, notes \in NotesArgs : SessionUpdateStatus(r, notes)
          \/ \E r \in SessionIds, sender \in Addresses : SessionLogAudit(r, sender)
          \/ /\ UNCHANGED requests
             /\ \/ \E sender \in Addresses, fileHash \in FileHashes,
                      ipfsHash \in IpfsHashes, fileName \in FileNames,
                      fileType \in FileTypes, fileSize \in FileSizes,
                      description \in Descriptions, caseId \in CaseIds :
                      /\ AddEvidenceOutcome(fileHash, fileName) = "ok"
                      /\ AddEvidence(sender, fileHash, ipfsHash, fileName, fileType,
                                     fileSize, description, caseId)
                \/ \E sender \in Addresses, evidenceId \in KnownIds :
                      /\ SealEvidenceOutcome(sender, evidenceId) = "ok"
                      /\ SealEvidence(sender, evidenceId)
                \/ \E sender \in Addresses, evidenceId \in KnownIds,
                      newStatus \in EvidenceStatus, notes \in NotesArgs :
                      /\ UpdateStatusOutcome(sender, evidenceId) = "ok"
                      /\ UpdateStatus(sender, evidenceId, newStatus, notes)
                \/ \E sender \in Addresses, evidenceId \in KnownIds,
                      action \in ActionArgs, notes \in NotesArgs :
                      /\ LogAuditOutcome(sender, evidenceId) = "ok"
                      /\ LogAudit(sender, evidenceId, action, notes)
             /\ SessionRecordUntouched
    \/ Return

SpecSession == Init /\ [][NextSession]_vars

\* The session ran as told: registered, sealed, update rejected for the
\* seal, entry logged.
SessionRanAsTold(r) ==
    /\ requests[r].kind = "session"
    /\ requests[r].pc = "done"
    /\ requests[r].locals = <<"ok", "ok", "Evidence is sealed", "ok">>

\* C21 as stated: after a freshly registered record was sealed by its
\* uploader, an updateStatus was rejected for the seal and a logAudit
\* succeeded, the audit log of the record has length 2.
C21_LogLengthTwo ==
    \A r \in SessionIds :
        SessionRanAsTold(r) => Len(LogsAt(requests[r].evidenceId)) = 2

\* C21 amended: the seal has put an entry on the log as well.  The log of a
\* freshly registered record has length 1; once the record is registered the
\* seal by its uploader succeeds and the update is rejected with "Evidence
\* is sealed"; after the logAudit the log has length 3: the EVIDENCE_ADDED
\* entry, the EVIDENCE_SEALED entry and the NOTE.
C21_LogLengthThree ==
    \A r \in SessionIds :
        /\ At(r, "session", "sealEvidence")
           => Len(LogsAt(requests[r].evidenceId)) = 1
        /\ requests[r].kind = "session" /\ Len(requests[r].locals) >= 2
           => requests[r].locals[2] = "ok"
        /\ requests[r].kind = "session" /\ Len(requests[r].locals) >= 3
           => requests[r].locals[3] = "Evidence is sealed"
        /\ SessionRanAsTold(r)
           => /\ Len(LogsAt(requests[r].evidenceId)) = 3
              /\ LogsAt(requests[r].evidenceId)[1].action = "EVIDENCE_ADDED"
              /\ LogsAt(requests[r].evidenceId)[2].action = "EVIDENCE_SEALED"
              /\ LogsAt(requests[r].evidenceId)[3].action = "NOTE"
              /\ LogsAt(requests[r].evidenceId)[3].notes = "reviewed"
              /\ StoreAt(requests[r].evidenceId).isSealed
              /\ StoreAt(requests[r].evidenceId).status = "Active"

\* The session of the account that registered "a1f0" as report.pdf has run
\* as told.
C21_Witness ==
    /\ SessionRanAsTold("r1")
    /\ requests["r1"].fileHash = "a1f0"
    /\ requests["r1"].fileName = "report.pdf"
    /\ requests["r1"].from = "0xB"
    /\ Len(LogsAt(requests["r1"].evidenceId)) = 3

\* ------------------------------------------------------------ view calls
\* The view functions of the contract, called from outside.
ViewFunctions ==
    {"verifyEvidence", "getEvidence", "getEvidenceByHash", "getAuditLogs",
     "getUploaderEvidence", "getAllEvidenceIds", "getEvidenceCount"}

\* The arguments a call of fn is made with; <<>> for a function without.
ViewArguments(fn) ==
    IF fn \in {"verifyEvidence", "getEvidenceByHash"} THEN FileHashes
    ELSE IF fn \in {"getEvidence", "getAuditLogs"} THEN KnownIds
    ELSE IF fn = "getUploaderEvidence" THEN Addresses
    ELSE {<<>>}

\* What the call fn(arg) answers on the storage of the moment.
ViewResult(fn, arg) ==
    CASE fn = "verifyEvidence" -> Returned(VerifyEvidence(arg))
      [] fn = "getEvidence" -> GetEvidence(arg)
      [] fn = "getEvidenceByHash" -> GetEvidenceByHash(arg)
      [] fn = "getAuditLogs" -> GetAuditLogs(arg)
      [] fn = "getUploaderEvidence" -> Returned(GetUploaderEvidence(arg))
      [] fn = "getAllEvidenceIds" -> Returned(GetAllEvidenceIds)
      [] fn = "getEvidenceCount" -> Returned(GetEvidenceCount)

\* The caller holds the answer of a view call.
ViewAnswered == lastTx.fn \in ViewFunctions

\* A call of a view function: the caller gets the answer and the call writes
\* nothing.  With the answer in hand the caller may repeat the call.
CallView(fn, arg) ==
    /\ lastTx = NoTx \/ (ViewAnswered /\ lastTx.fn = fn /\ lastTx.arg = arg)
    /\ arg \in ViewArguments(fn)
    /\ lastTx' = [fn |-> fn, arg |-> arg,
                  outcome |-> ViewResult(fn, arg).outcome,
                  ret |-> ViewResult(fn, arg).ret]
    /\ UNCHANGED <<ledgerVars, chainVars, requests>>

\* View calls between the transactions that get through and the blocks; a
\* block may be mined between two calls.  (The views hand the status out as
\* it is stored, so one status besides that of a new record shows what they
\* do with it.)
NextCall ==
    \/ \E fn \in ViewFunctions :
          \E arg \in ViewArguments(fn) : CallView(fn, arg)
    \/ /\ ViewAnswered
       /\ MineBlock
       /\ UNCHANGED requests
    \/ /\ lastTx = NoTx
       /\ UNCHANGED requests
       /\ \/ \E sender \in Addresses, fileHash \in FileHashes,
                ipfsHash \in IpfsHashes, fileName \in FileNames,
                fileType \in FileTypes, fileSize \in FileSizes,
                description \in Descriptions, caseId \in CaseIds :
                /\ AddEvidenceOutcome(fileHash, fileName) = "ok"
                /\ AddEvidence(sender, fileHash, ipfsHash, fileName, fileType,
                               fileSize, description, caseId)
          \/ \E sender \in Addresses, evidenceId \in KnownIds :
                /\ SealEvidenceOutcome(sender, evidenceId) = "ok"
                /\ SealEvidence(sender, evidenceId)
          \/ \E sender \in Addresses, evidenceId \in KnownIds,
                newStatus \in {"Disputed"}, notes \in NotesArgs :
                /\ UpdateStatusOutcome(sender, evidenceId) = "ok"
                /\ UpdateStatus(sender, evidenceId, newStatus, notes)
          \/ \E sender \in Addresses, evidenceId \in KnownIds,
                action \in ActionArgs, notes \in NotesArgs :
                /\ LogAuditOutcome(sender, evidenceId) = "ok"
                /\ LogAudit(sender, evidenceId, action, notes)
          \/ MineBlock
    \/ Return

SpecCall == Init /\ [][NextCall]_vars

\* C27: verifyEvidence, getEvidence, getEvidenceByHash, getAuditLogs,
\* getAllEvidenceIds, getUploaderEvidence and getEvidenceCount leave the
\* whole storage of the contract as it was; a call repeated with the same
\* argument, with nothing but blocks mined since the call before, answers
\* the same; and nothing that happens between two transactions without
\* writing the storage (a block, a call of a view) changes what any of the
\* seven answers for any argument.
C27_ViewsReadOnlyAndRepeatable ==
    [][/\ lastTx'.fn \in ViewFunctions /\ lastTx' # lastTx
          => /\ ledgerVars' = ledgerVars
             /\ [outcome |-> lastTx'.outcome, ret |-> lastTx'.ret]
                   = ViewResult(lastTx'.fn, lastTx'.arg)
       /\ ViewAnswered /\ lastTx'.fn = lastTx.fn /\ lastTx'.arg = lastTx.arg
          => lastTx' = lastTx
       /\ Settled /\ ledgerVars' = ledgerVars
          => \A fn \in ViewFunctions :
                \A arg \in ViewArguments(fn) :
                   ViewResult(fn, arg)' = ViewResult(fn, arg)]_vars

\* verifyEvidence has answered for a registered hash, and a block with a
\* later time has been mined since the call.
C27_Witness ==
    /\ ViewAnswered
    /\ lastTx.fn = "verifyEvidence"
    /\ lastTx.ret.isValid
    /\ lastTx.ret.timestamp < blockTimestamp
    /\ lastTx.ret.evidenceId[4] < blockNumber
    /\ lastTx.ret = VerifyEvidence(lastTx.arg)

\* --------------------------------------------- GET /stats/overview, alone
\* The storage after three registrations in one block, "a1f0" by 0xB, "b2e1"
\* by 0xA and "c3d2" by 0xB, and the sealing of the first by its uploader.
\* (MaxEntries keeps the transactions of a run below the four entries of this
\* storage, so the runs that read it start from it.)
ThreeRegisteredOneSealed ==
    /\ owner \in Deployers
    /\ blockTimestamp = 1
    /\ blockNumber = 1
    /\ LET id1 == EvidenceIdOf("a1f0", "0xB", blockTimestamp, blockNumber)
           id2 == EvidenceIdOf("b2e1", "0xA", blockTimestamp, blockNumber)
           id3 == EvidenceIdOf("c3d2", "0xB", blockTimestamp, blockNumber)
           new(sender, fileHash) ==
               NewEvidence(sender, fileHash, "", "report.pdf",
                           "application/pdf", 1024, "", "CASE-1")
       IN  /\ evidenceStore =
                 [evidenceId \in {id1, id2, id3} |->
                     IF evidenceId = id1 THEN SealedEvidence(new("0xB", "a1f0"))
                     ELSE IF evidenceId = id2 THEN new("0xA", "b2e1")
                     ELSE new("0xB", "c3d2")]
           /\ auditLogs =
                 [evidenceId \in {id1, id2, id3} |->
                     IF evidenceId = id1
                     THEN <<InitialAuditLog("0xB"),
                            AuditLog("0xB", "EVIDENCE_SEALED", blockTimestamp,
                                     "Evidence sealed for integrity")>>
                     ELSE IF evidenceId = id2 THEN <<InitialAuditLog("0xA")>>
                     ELSE <<InitialAuditLog("0xB")>>]
           /\ uploaderEvidence =
                 [a \in Addresses |-> IF a = "0xB" THEN <<id1, id3>> ELSE <<id2>>]
           /\ hashToId =
                 [h \in FileHashes \cup {"c3d2"} |->
                     IF h = "a1f0" THEN id1
                     ELSE IF h = "b2e1" THEN id2
                     ELSE IF h = "c3d2" THEN id3
                     ELSE ZeroId]
           /\ allEvidenceIds = <<id1, id2, id3>>
    /\ totalEvidence = 3
    /\ lastTx = NoTx
    /\ requests = [r \in RequestIds |-> NoRequest]

\* The contract as deployed, or with the three registrations made.
InitQuiet == Init \/ ThreeRegisteredOneSealed

\* No request is in flight or answered.
NoRequests == \A r \in RequestIds : requests[r] = NoRequest

\* A stats request that runs with no transaction beside it: the transactions
\* that get through come before the request arrives.
NextQuiet ==
    \/ /\ lastTx = NoTx
       /\ \/ \E r \in ReadRequestIds : StatsReceive(r)
          \/ \E r \in ReadRequestIds : StatsCountAnswered(r)
          \/ \E r \in ReadRequestIds : StatsIdsAnswered(r)
          \/ \E r \in ReadRequestIds, i \in DOMAIN allEvidenceIds :
                StatsEvidenceAnswered(r, i)
          \/ /\ NoRequests
             /\ UNCHANGED requests
             /\ \/ \E sender \in Addresses, fileHash \in FileHashes,
                      ipfsHash \in IpfsHashes, fileName \in FileNames,
                      fileType \in FileTypes, fileSize \in FileSizes,
                      description \in Descriptions, caseId \in CaseIds :
                      /\ AddEvidenceOutcome(fileHash, fileName) = "ok"
                      /\ AddEvidence(sender, fileHash, ipfsHash, fileName, fileType,
                                     fileSize, description, caseId)
                \/ \E sender \in Addresses, evidenceId \in KnownIds :
                      /\ SealEvidenceOutcome(sender, evidenceId) = "ok"
                      /\ SealEvidence(sender, evidenceId)
                \/ \E sender \in Addresses, evidenceId \in KnownIds,
                      newStatus \in EvidenceStatus, notes \in NotesArgs :
                      /\ UpdateStatusOutcome(sender, evidenceId) = "ok"
                      /\ UpdateStatus(sender, evidenceId, newStatus, notes)
                \/ \E sender \in Addresses, evidenceId \in KnownIds,
                      action \in ActionArgs, notes \in NotesArgs :
                      /\ LogAuditOutcome(sender, evidenceId) = "ok"
                      /\ LogAudit(sender, evidenceId, action, notes)
                \/ MineBlock
    \/ Return

SpecQuiet == InitQuiet /\ [][NextQuiet]_vars

\* C26: a stats request that runs with no transaction beside it answers with
\* total = the number of records, active = the number of records with status
\* Active, sealed = the number of records with isSealed set, disputed = the
\* number of records with status Disputed; after three registrations of
\* which exactly one has been sealed that is total = 3 and sealed = 1.
C26_StatsCountTheRecords ==
    \A r \in ReadRequestIds :
        At(r, "stats", "done")
        => /\ requests[r].response.status = 200
           /\ requests[r].response.data =
                 [total |-> Cardinality(Records),
                  active |-> Cardinality({evidenceId \in Records :
                                evidenceStore[evidenceId].status = "Active"}),
                  sealed |-> Cardinality({evidenceId \in Records :
                                evidenceStore[evidenceId].isSealed}),
                  disputed |-> Cardinality({evidenceId \in Records :
                                evidenceStore[evidenceId].status = "Disputed"})]
           /\ (Cardinality(Records) = 3
               /\ Cardinality({evidenceId \in Records :
                                  evidenceStore[evidenceId].isSealed}) = 1)
              => /\ requests[r].response.data.total = 3
                 /\ requests[r].response.data.sealed = 1

\* Stats has answered after three registrations and one seal.
C26_Witness ==
    /\ At("r1", "stats", "done")
    /\ totalEvidence = 3
    /\ Len(allEvidenceIds) = 3
    /\ requests["r1"].response.data.total = 3
    /\ requests["r1"].response.data.sealed = 1
    /\ requests["r1"].response.data.active = 3
    /\ requests["r1"].response.data.disputed = 0

\* The fields of a record that addEvidence sets and nothing writes again.
CreationFields(e) ==
    <<e.fileHash, e.ipfsHash, e.fileName, e.fileType, e.fileSize,
      e.description, e.caseId, e.timestamp, e.uploader>>

\* C31: a successful sealEvidence changes only isSealed and the audit log of
\* the record it names, a successful updateStatus only its status and its
\* audit log, a successful logAudit only its audit log; fileHash, ipfsHash,
\* fileName, fileType, fileSize, description, caseId, timestamp and uploader
\* of a record never change once it is stored; and every other record and
\* log, hashToId, the id lists, totalEvidence and owner stay as they were.
C31_MutationsTouchOnlyWhatTheyName ==
    [][ledgerVars' # ledgerVars =>
       /\ \A evidenceId \in DOMAIN evidenceStore :
             /\ evidenceId \in DOMAIN evidenceStore'
             /\ CreationFields(evidenceStore'[evidenceId])
                   = CreationFields(evidenceStore[evidenceId])
       /\ lastTx'.fn \in {"sealEvidence", "updateStatus", "logAudit"}
          => LET evidenceId == lastTx'.evidenceId
                 before == evidenceStore[evidenceId]
                 after == evidenceStore'[evidenceId]
             IN  /\ lastTx'.outcome = "ok"
                 /\ DOMAIN evidenceStore' = DOMAIN evidenceStore
                 /\ DOMAIN auditLogs' = DOMAIN auditLogs
                 /\ \A other \in DOMAIN evidenceStore \ {evidenceId} :
                       /\ evidenceStore'[other] = evidenceStore[other]
                       /\ auditLogs'[other] = auditLogs[other]
                 /\ <<hashToId, uploaderEvidence, allEvidenceIds,
                      totalEvidence, owner>>'
                       = <<hashToId, uploaderEvidence, allEvidenceIds,
                           totalEvidence, owner>>
                 /\ auditLogs'[evidenceId] # auditLogs[evidenceId]
                 /\ lastTx'.fn = "sealEvidence"
                    => after = [before EXCEPT !.isSealed = TRUE]
                 /\ lastTx'.fn = "updateStatus"
                    => after = [before EXCEPT !.status = after.status]
                 /\ lastTx'.fn = "logAudit" => after = before]_vars

\* Of two records the second has been sealed; it is Active as before, and
\* the first is unsealed as before.
C31_Witness ==
    /\ lastTx.fn = "sealEvidence"
    /\ lastTx.outcome = "ok"
    /\ Len(allEvidenceIds) = 2
    /\ lastTx.evidenceId = allEvidenceIds[2]
    /\ StoreAt(allEvidenceIds[2]).isSealed
    /\ StoreAt(allEvidenceIds[2]).status = "Active"
    /\ ~StoreAt(allEvidenceIds[1]).isSealed

\* ------------------------------------------------- logAudit, any action
\* The action of logAudit is a string of the caller's choosing: a note, or
\* one of the names the contract itself writes.
AnyActions == {"NOTE", "EVIDENCE_SEALED", "EVIDENCE_ADDED"}

\* The transactions that get through, logAudit with any action among them.
\* (The block only stamps the entries: the calls of a run fall into one
\* block.)
NextAudit ==
    \/ /\ lastTx = NoTx
       /\ UNCHANGED requests
       /\ \/ \E sender \in Addresses, fileHash \in FileHashes,
                ipfsHash \in IpfsHashes, fileName \in FileNames,
                fileType \in FileTypes, fileSize \in FileSizes,
                description \in Descriptions, caseId \in CaseIds :
                /\ AddEvidenceOutcome(fileHash, fileName) = "ok"
                /\ AddEvidence(sender, fileHash, ipfsHash, fileName, fileType,
                               fileSize, description, caseId)
          \/ \E sender \in Addresses, evidenceId \in KnownIds :
                /\ SealEvidenceOutcome(sender, evidenceId) = "ok"
                /\ SealEvidence(sender, evidenceId)
          \/ \E sender \in Addresses, evidenceId \in KnownIds,
                newStatus \in EvidenceStatus, notes \in NotesArgs :
                /\ UpdateStatusOutcome(sender, evidenceId) = "ok"
                /\ UpdateStatus(sender, evidenceId, newStatus, notes)
          \/ \E sender \in Addresses, evidenceId \in KnownIds,
                action \in AnyActions, notes \in NotesArgs :
                /\ LogAuditOutcome(sender, evidenceId) = "ok"
                /\ LogAudit(sender, evidenceId, action, notes)
    \/ Return

SpecAudit == Init /\ [][NextAudit]_vars

\* The number of entries of log with the given action.
EntriesWith(log, action) ==
    Cardinality({i \in DOMAIN log : log[i].action = action})

\* C32: in every reachable state the log of a record holds an entry with
\* action EVIDENCE_SEALED exactly when the record is sealed, at most one such
\* entry, and exactly one entry with action EVIDENCE_ADDED, the first,
\* whatever actions the callers of logAudit pass.
C32_LogTellsTheTruth ==
    \A evidenceId \in DOMAIN evidenceStore :
        LET log == auditLogs[evidenceId]
        IN  /\ HasSealEntry(log) <=> evidenceStore[evidenceId].isSealed
            /\ EntriesWith(log, "EVIDENCE_SEALED") <= 1
            /\ EntriesWith(log, "EVIDENCE_ADDED") = 1
            /\ log[1].action = "EVIDENCE_ADDED"

\* C33: sealEvidence and updateStatus decide their failure in a fixed order:
\* "Evidence not found" when the id has no record, else "Evidence is sealed"
\* when the record is sealed, else the authorization failure when the caller
\* is neither the uploader nor the owner; so a caller without authorization
\* gets "Evidence is sealed" on a sealed record.  addEvidence answers an
\* empty hash or an empty name with its input failure before it looks for a
\* record with the same hash.
C33_FailureOrder ==
    [][IsTx =>
       LET sender == lastTx'.sender
           evidenceId == lastTx'.evidenceId
           found == evidenceId \in DOMAIN evidenceStore
           authorized == sender \in {evidenceStore[evidenceId].uploader, owner}
       IN  /\ lastTx'.fn = "sealEvidence"
              => lastTx'.outcome =
                    IF ~found THEN "Evidence not found"
                    ELSE IF evidenceStore[evidenceId].isSealed THEN "Evidence is sealed"
                    ELSE IF ~authorized THEN "Not authorized to seal"
                    ELSE "ok"
           /\ lastTx'.fn = "updateStatus"
              => lastTx'.outcome =
                    IF ~found THEN "Evidence not found"
                    ELSE IF evidenceStore[evidenceId].isSealed THEN "Evidence is sealed"
                    ELSE IF ~authorized THEN "Not authorized"
                    ELSE "ok"
           /\ lastTx'.fn = "addEvidence"
              => lastTx'.outcome =
                    IF lastTx'.fileHash = "" THEN "File hash required"
                    ELSE IF lastTx'.fileName = "" THEN "File name required"
                    ELSE IF Registered(lastTx'.fileHash)
                    THEN "Evidence with this hash already exists"
                    ELSE "ok"]_vars

\* An account that is neither the uploader nor the owner has called
\* updateStatus on a sealed record and got the sealed failure.
C33_Witness ==
    /\ lastTx.fn = "updateStatus"
    /\ lastTx.outcome = "Evidence is sealed"
    /\ StoreAt(lastTx.evidenceId).isSealed
    /\ lastTx.sender # StoreAt(lastTx.evidenceId).uploader
    /\ lastTx.sender # owner

\* C38: block.timestamp never going backwards, the timestamps of the entries
\* of every audit log are non-decreasing in the order of the log, the first
\* entry carries the timestamp of the record, and the ids of allEvidenceIds
\* stand in the order of non-decreasing record timestamps.
C38_TimestampsInOrder ==
    Settled =>
    /\ \A evidenceId \in DOMAIN evidenceStore :
          LET log == auditLogs[evidenceId]
          IN  /\ log[1].timestamp = evidenceStore[evidenceId].timestamp
              /\ \A i, j \in DOMAIN log :
                    i <= j => log[i].timestamp <= log[j].timestamp
              /\ log[Len(log)].timestamp <= blockTimestamp
    /\ \A i, j \in DOMAIN allEvidenceIds :
          i <= j => evidenceStore[allEvidenceIds[i]].timestamp
                       <= evidenceStore[allEvidenceIds[j]].timestamp

\* A record registered in an earlier second than a second record, with a log
\* entry written after the second registration.
C38_Witness ==
    /\ Settled
    /\ Len(allEvidenceIds) = 2
    /\ StoreAt(allEvidenceIds[1]).timestamp < StoreAt(allEvidenceIds[2]).timestamp
    /\ Len(LogsAt(allEvidenceIds[1])) = 2
    /\ LogsAt(allEvidenceIds[1])[1].timestamp < LogsAt(allEvidenceIds[1])[2].timestamp

\* What a seal request answers at the step it ends with, by the sender the
\* body gives and the storage of that moment.
SealAnswer(from, evidenceId) ==
    IF SealEvidenceOutcome(from, evidenceId) = "ok"
    THEN [NoResponse EXCEPT !.status = 200]
    ELSE ErrorResponse(500, SealEvidenceOutcome(from, evidenceId))

\* C36: what a seal request answers depends on the storage of the contract
\* and on fromAddress of its body alone, the account of the backend standing
\* in for an absent fromAddress: the transaction is sent from that account,
\* whoever sent the request, every step of the handler is decided by that
\* account, the id and the storage, two requests with the same body that end
\* in the same step end alike, and a request without fromAddress seals any
\* unsealed record when the account of the backend is the owner.
C36_SealDecidedByBodyAndLedger ==
    [][\A r \in RequestIds :
          /\ requests'[r].kind = "seal" => requests'[r].from \in Addresses
          /\ (At(r, "seal", "estimateGas") /\ requests'[r] # requests[r])
             => requests'[r] =
                   IF SealEvidenceOutcome(requests[r].from, requests[r].evidenceId) = "ok"
                   THEN [requests[r] EXCEPT !.pc = "send"]
                   ELSE [requests[r] EXCEPT
                            !.pc = "done",
                            !.response = SealAnswer(requests[r].from,
                                                    requests[r].evidenceId)]
          /\ (At(r, "seal", "send") /\ requests'[r] # requests[r])
             => /\ requests'[r] =
                      [requests[r] EXCEPT
                          !.pc = "done",
                          !.response = SealAnswer(requests[r].from,
                                                  requests[r].evidenceId)]
                /\ lastTx'.fn = "sealEvidence"
                /\ lastTx'.sender = requests[r].from
                /\ (/\ requests[r].from = deployerAccount
                    /\ owner = deployerAccount
                    /\ evidenceExists(requests[r].evidenceId)
                    /\ notSealed(requests[r].evidenceId))
                   => /\ requests'[r].response.status = 200
                      /\ evidenceStore'[requests[r].evidenceId].isSealed
          /\ \A other \in RequestIds :
                (/\ requests[r].kind = "seal" /\ requests[other].kind = "seal"
                 /\ requests[r].pc # "done" /\ requests'[r].pc = "done"
                 /\ requests[other].pc = "done"
                 /\ requests[other].from = requests[r].from
                 /\ requests[other].evidenceId = requests[r].evidenceId
                 /\ requests[other].response = SealAnswer(requests[r].from,
                                                          requests[r].evidenceId))
                => requests'[r].response = requests[other].response]_vars

\* The backend's account is the owner, and a request that leaves from to it
\* has sealed the record of another account.
C36_Witness ==
    \E r \in RequestIds :
        /\ At(r, "seal", "done")
        /\ requests[r].response.status = 200
        /\ requests[r].from = deployerAccount
        /\ owner = deployerAccount
        /\ StoreAt(requests[r].evidenceId).uploader # deployerAccount
        /\ StoreAt(requests[r].evidenceId).isSealed
        /\ lastTx.fn = "sealEvidence"
        /\ lastTx.sender = deployerAccount

\* ------------------------------------------ the handlers and their faults
\* What a call of the file system does (readFileSync in hashFile,
\* unlinkSync), and what a call of the ledger over the connection does.
FsOutcomes == {"ok", "throws"}
CallOutcomes == {"ok", "fails"}

\* The exception leaves the catch block: the promise of the async handler
\* rejects with nobody to catch it, and no response is sent for the request.
Escaped(request) == [request EXCEPT !.pc = "rejected"]

\* The catch block of the upload handler with the faults of the file system:
\* the file is there, and when unlinkSync throws the exception leaves the
\* handler.
UploadCatch(request, message, unlink) ==
    IF request.file /\ unlink = "throws" THEN Escaped(request)
    ELSE UploadFailed(request, message)

\* The upload arrives and readFileSync throws in hashFile.
UploadReceiveThrows(r, file, unlink) ==
    /\ Arrives(r)
    /\ file # NoFile
    /\ requests' = [requests EXCEPT ![r] =
          UploadCatch([NoRequest EXCEPT !.kind = "upload", !.pc = "hashFile",
                                        !.file = TRUE],
                      "EIO: i/o error, read", unlink)]
    /\ UNCHANGED <<ledgerVars, chainVars, lastTx>>

\* Something throws inside the try block while the handler stands at one of
\* its awaits: the call fails on the connection, or (for a registered hash)
\* unlinkSync throws before the 409 is sent.  The ledger is as it was.
UploadThrows(r, unlink) ==
    /\ requests[r].kind = "upload"
    /\ requests[r].pc \in {"verifyEvidence", "estimateGas", "send"}
    /\ requests' = [requests EXCEPT ![r] =
          UploadCatch(@, "connection not open", unlink)]
    /\ UNCHANGED <<ledgerVars, chainVars, lastTx>>

\* The catch block of the verify handler leaving the file where it is.
VerifyCatch_KeepsFile(request, message, unlink) ==
    [request EXCEPT !.pc = "done", !.response = ErrorResponse(500, message)]

\* The catch block of the verify handler: the file is removed if it is still
\* there, and 500 goes out; when unlinkSync throws the exception leaves the
\* handler.
VerifyCatch(request, message, unlink) ==
    IF request.file /\ unlink = "throws" THEN Escaped(request)
    ELSE [request EXCEPT !.pc = "done", !.file = FALSE,
                         !.response = ErrorResponse(500, message)]

\* POST /verify arrives; multer has stored the file.  Without a file the
\* handler answers 400.  Otherwise it hashes the file and removes it at once,
\* then calls verifyEvidence; an exception of either call goes to the catch
\* block with the file still there.
VerifyReceive(r, file, read, remove, unlink) ==
    /\ Arrives(r)
    /\ requests' = [requests EXCEPT ![r] =
          IF file = NoFile
          THEN [NoRequest EXCEPT !.kind = "verify", !.pc = "done",
                                 !.response = ErrorResponse(400, "No file uploaded")]
          ELSE LET stored == [NoRequest EXCEPT !.kind = "verify",
                                               !.pc = "hashFile", !.file = TRUE]
               IN  IF read = "throws"
                   THEN VerifyCatch(stored, "EIO: i/o error, read", unlink)
                   ELSE IF remove = "throws"
                   THEN VerifyCatch([stored EXCEPT !.fileHash = hashFile(file)],
                                    "EPERM: operation not permitted, unlink", unlink)
                   ELSE [stored EXCEPT !.pc = "verifyEvidence",
                                       !.fileHash = hashFile(file),
                                       !.file = FALSE]]
    /\ UNCHANGED <<ledgerVars, chainVars, lastTx>>

\* verifyEvidence answers: for a hash without a record the handler answers
\* isValid false; otherwise it keeps the id and calls getEvidenceByHash.
VerifyVerifyEvidence(r, call) ==
    /\ At(r, "verify", "verifyEvidence")
    /\ LET result == VerifyEvidence(requests[r].fileHash)
       IN  requests' = [requests EXCEPT ![r] =
              IF call = "fails" THEN VerifyCatch(@, "connection not open", "ok")
              ELSE IF ~result.isValid
              THEN [@ EXCEPT !.pc = "done",
                             !.response = [NoResponse EXCEPT
                                !.status = 200,
                                !.data = [isValid |-> FALSE,
                                          fileHash |-> requests[r].fileHash]]]
              ELSE [@ EXCEPT !.pc = "getEvidenceByHash",
                             !.evidenceId = result.evidenceId]]
    /\ UNCHANGED <<ledgerVars, chainVars, lastTx>>

\* getEvidenceByHash answers; the handler keeps the record and calls
\* getAuditLogs with the id verifyEvidence returned.
VerifyGetEvidenceByHash(r, call) ==
    /\ At(r, "verify", "getEvidenceByHash")
    /\ LET result == GetEvidenceByHash(requests[r].fileHash)
       IN  requests' = [requests EXCEPT ![r] =
              IF call = "fails" THEN VerifyCatch(@, "connection not open", "ok")
              ELSE IF result.outcome # "ok" THEN VerifyCatch(@, result.outcome, "ok")
              ELSE [@ EXCEPT !.pc = "getAuditLogs",
                             !.locals = serializeEvidence(result.ret)]]
    /\ UNCHANGED <<ledgerVars, chainVars, lastTx>>

\* getAuditLogs answers; the handler sends the record and the log.
VerifyGetAuditLogs(r, call) ==
    /\ At(r, "verify", "getAuditLogs")
    /\ LET result == GetAuditLogs(requests[r].evidenceId)
       IN  requests' = [requests EXCEPT ![r] =
              IF call = "fails" THEN VerifyCatch(@, "connection not open", "ok")
              ELSE IF result.outcome # "ok" THEN VerifyCatch(@, result.outcome, "ok")
              ELSE [@ EXCEPT !.pc = "done",
                             !.response = [NoResponse EXCEPT
                                !.status = 200,
                                !.data = [isValid |-> TRUE,
                                          fileHash |-> requests[r].fileHash,
                                          evidence |-> requests[r].locals,
                                          auditLogs |-> result.ret]]]]
    /\ UNCHANGED <<ledgerVars, chainVars, lastTx>>

\* An upload or a verify request with the faults of the file system and of
\* the connection, next to the registrations that other accounts get through.
\* (The two handlers read nothing that sealEvidence, updateStatus or logAudit
\* write but the record and log that verify hands on as they are, and the
\* block only stamps the entries.)
NextFiles ==
    \/ /\ lastTx = NoTx
       /\ \/ \E r \in ReadRequestIds, file \in UploadedFiles \cup {NoFile},
                fileName \in UploadNames, uploaderAddress \in BodyAddresses :
                UploadReceive(r, file, fileName, uploaderAddress)
          \/ \E r \in ReadRequestIds, file \in UploadedFiles, unlink \in FsOutcomes :
                UploadReceiveThrows(r, file, unlink)
          \/ \E r \in ReadRequestIds : UploadVerifyEvidence(r)
          \/ \E r \in ReadRequestIds : UploadEstimateGas(r)
          \/ \E r \in ReadRequestIds : UploadSend(r)
          \/ \E r \in ReadRequestIds, unlink \in FsOutcomes : UploadThrows(r, unlink)
          \/ \E r \in ReadRequestIds, file \in UploadedFiles \cup {NoFile},
                read \in FsOutcomes, remove \in FsOutcomes, unlink \in FsOutcomes :
                VerifyReceive(r, file, read, remove, unlink)
          \/ \E r \in ReadRequestIds, call \in CallOutcomes : VerifyVerifyEvidence(r, call)
          \/ \E r \in ReadRequestIds, call \in CallOutcomes : VerifyGetEvidenceByHash(r, call)
          \/ \E r \in ReadRequestIds, call \in CallOutcomes : VerifyGetAuditLogs(r, call)
          \/ /\ UNCHANGED requests
             /\ \E sender \in Addresses, fileHash \in FileHashes,
                   ipfsHash \in IpfsHashes, fileName \in FileNames,
                   fileType \in FileTypes, fileSize \in FileSizes,
                   description \in Descriptions, caseId \in CaseIds :
                   /\ AddEvidenceOutcome(fileHash, fileName) = "ok"
                   /\ AddEvidence(sender, fileHash, ipfsHash, fileName, fileType,
                                  fileSize, description, caseId)
    \/ Return

SpecFiles == Init /\ [][NextFiles]_vars

\* C34: whatever a verify request ends with (record found, no record, the
\* hashing failed, a call of the ledger failed), the uploaded file is gone
\* when the response is sent, and no step of the request writes the storage
\* of the contract.
C34_VerifyLeavesNothingBehind ==
    [][\A r \in ReadRequestIds :
          (requests'[r].kind = "verify" /\ requests'[r] # requests[r])
          => /\ ledgerVars' = ledgerVars
             /\ requests'[r].response # NoResponse
                => /\ requests'[r].pc = "done"
                   /\ ~requests'[r].file
                   /\ requests[r].response = NoResponse]_vars

\* A verify request for a registered file has answered with the record, and
\* the file is gone.
C34_Witness ==
    /\ At("r1", "verify", "done")
    /\ requests["r1"].response.status = 200
    /\ requests["r1"].response.data.isValid
    /\ requests["r1"].response.data.evidence.fileHash = requests["r1"].fileHash
    /\ ~requests["r1"].file
    /\ totalEvidence = 1

\* C35: an upload request keeps its file exactly when it registered a
\* record: with the 409 of a duplicate or an error response sent the file
\* is removed, and with the 201 sent the file is there and the ledger holds a
\* record with the hash of the file.
C35_FileKeptIffRegistered ==
    \A r \in ReadRequestIds :
        (requests[r].kind = "upload" /\ requests[r].response # NoResponse)
        => /\ requests[r].pc = "done"
           /\ requests[r].response.status \in {201, 400, 409, 500}
           /\ requests[r].file <=> requests[r].response.status = 201
           /\ requests[r].response.status = 201
              => /\ Registered(requests[r].fileHash)
                 /\ StoreAt(requests[r].response.evidenceId).fileHash
                       = requests[r].fileHash

\* An upload has ended with 500 after its registration reverted on a record
\* that another account registered in between, and its file is removed.
C35_Witness ==
    /\ At("r1", "upload", "done")
    /\ requests["r1"].response.status = 500
    /\ requests["r1"].response.error = "Evidence with this hash already exists"
    /\ ~requests["r1"].file
    /\ Registered(requests["r1"].fileHash)

\* C37: no request blocks: every upload and verify request that has reached
\* its handler and whose handler has run to its end has sent its one
\* response, also where a call of the ledger or the removal of the file
\* failed.
C37_EveryHandlerResponds ==
    \A r \in ReadRequestIds :
        requests[r].pc \in {"done", "rejected"}
        => requests[r].response.status # 0

====
